---- MODULE Spec2Model ----
(***************************************************************************)
(* A model of the ArcGIS Experience Builder downloader (eb-scraper):       *)
(*   - VersionManager  (src/src/version-manager.ts): the version catalog   *)
(*   - Downloader      (src/src/downloader.ts): streaming download, digest *)
(*   - Scraper         (src/src/scraper.ts): browser-driven URL capture    *)
(*                                                                         *)
(* Strings are sequences of tokens.  A token is one character ("1", ".",   *)
(* "v", a hex digit) or one literal of the source that is never split      *)
(* ("arcgis-experience-builder", ".zip", "application/zip").               *)
(* Timestamps (new Date().toISOString()) are the value of a logical clock; *)
(* the empty timestamp '' is 0.                                            *)
(***************************************************************************)
EXTENDS Integers, Sequences, FiniteSets, TLC

VARIABLES
    data,       \* VersionManager.data: [versions, lastScraped]
    file,       \* content of versions-list.json (NoFile when absent)
    diskWritable, \* whether fs.writeFileSync on versions-list.json succeeds
    clock,      \* the wall clock read by new Date()
    lastCall    \* the last VersionManager call that returned: [op, version]

catalogVars == <<data, file, diskWritable, clock, lastCall>>

VARIABLES
    dlPc,            \* where downloadAndVerify stands
    dlArgs,          \* its arguments: [expectedHash, hashType]
    dlServer,        \* what the server answers: [status, encoding, body, advertised]
    stream,          \* decoded bytes the 'data' events have still to deliver
    totalBytes,      \* downloadFile's totalBytes
    bytesDownloaded, \* downloadFile's bytesDownloaded
    progress,        \* the DownloadProgress values handed to onProgress, in order
    pending,         \* bytes written to fileStream that are not on disk yet
    disk,            \* content of the file at outputPath (NotCreated before the open)
    fileSize,        \* downloadAndVerify's fileSize
    dlChecksum,      \* downloadAndVerify's checksum (Undefined before it is computed)
    dlResult,        \* the DownloadResult returned (NoResult when none)
    dlError,         \* the error thrown (NoError when none)
    dlEvents         \* the request events that have fired: "timeout", "error"

VARIABLES
    page,         \* the vendor page: the release of each download control, in page order
    scOp,         \* the Scraper method running: "none", "downloadVersion", "getVersionHash"
    scPc,         \* where it stands
    scVersion,    \* its version argument
    validatedOutputPath, \* downloadVersion's validatedOutputPath
    versionData,  \* downloadVersion's versionData, as the index of the record
    browser,      \* the browser session: "none", "open", "closed"
    downloadButton, \* the control found, as its index on the page (0: null)
    listening,    \* whether page.on('response') is attached
    clicked,      \* the control clicked, as its index on the page (0: none)
    responses,    \* number of responses received since the click
    lastResponse, \* the response received last (NoResponse before the first)
    downloadUrl,  \* the observer's downloadUrl (Null while nothing is captured)
    fetched,      \* the outcome of the downloadAndVerify call (NotFetched before it)
    scOutcome     \* what the method returned or threw (Running before that)

scraperVars == <<page, scOp, scPc, scVersion, validatedOutputPath, versionData, browser, downloadButton,
                 listening, clicked,
                 responses, lastResponse, downloadUrl, fetched, scOutcome>>

VARIABLES
    cliPc,       \* the process: "idle", "awaiting" a Scraper method, "exited"
    cliOptions,  \* program.opts(): [command, version, output]
    cliMessage,  \* the message the handler wrote with console.error (NoError: none)
    exitCode     \* the exit code of the process (NotExited while it runs)

cliVars == <<cliPc, cliOptions, cliMessage, exitCode>>

VARIABLES
    shPc,           \* scrapeVersionHash: "idle", "calcite", "cookie", "extract",
                    \* "clipboard", "close", "done"
    shEnv,          \* what the page and the browser give: [checksumsButton,
                    \* clipboardReadable, validationInPage]
    dialogs,        \* the dialogs of the document after the click, in document order
    closed,         \* the indexes of the dialogs that were closed or dismissed
    clipboard,      \* the text navigator.clipboard holds
    extractedHash,  \* the local variable of that name
    shResult,       \* Running, or the value returned
    shTrace         \* the tiers evaluated and the controls clicked, in order

scrapeVars == <<shPc, shEnv, dialogs, closed, clipboard, extractedHash, shResult, shTrace>>

VARIABLES
    vtPc,            \* VersionTester.run: "idle", "testing", "done"
    vtVersions,      \* the versions loadVersions returned
    vtIndex,         \* the loop index i, from 1 (0 before the loop)
    vtSettled,       \* the indexes whose testVersion promise is settled
    vtFired,         \* the events that have fired, as <<index, event>>
    vtClosing,       \* the close handlers that await fs, as [index, code]
    results,         \* this.results
    failedVersions   \* this.failedVersions

testerVars == <<vtPc, vtVersions, vtIndex, vtSettled, vtFired, vtClosing, results,
                failedVersions>>

downloadVars == <<dlPc, dlArgs, dlServer, stream, totalBytes, bytesDownloaded, progress,
                  pending, disk, fileSize, dlChecksum, dlResult, dlError, dlEvents>>

----------------------------------------------------------------------------
(* Bounds of the model *)

MaxRecords == 3
MaxClock == 2
MaxSetLen == 2
MaxBody == 2
MaxControls == 2
MaxResponses == 2
MaxVersions == 2

----------------------------------------------------------------------------
(* Strings *)

Undefined == <<"undefined">>
EmptyString == << >>

\* String.prototype.startsWith
StartsWith(s, p) ==
    /\ Len(s) >= Len(p)
    /\ SubSeq(s, 1, Len(p)) = p

\* String.prototype.includes
Includes(s, p) ==
    \E i \in 0..(Len(s) - Len(p)) : SubSeq(s, i + 1, i + Len(p)) = p

\* String.prototype.substring(1)
Substring1(s) == IF Len(s) = 0 THEN s ELSE Tail(s)

\* a JavaScript value used as a condition: undefined and '' are falsy
Truthy(s) == s # Undefined /\ s # EmptyString

\* x || undefined
OrUndefined(s) == IF Truthy(s) THEN s ELSE Undefined

----------------------------------------------------------------------------
(* Version identifiers: the strings Validation.VERSION_PATTERN accepts *)

Bare10 == <<"1", ".", "0">>
Bare100 == <<"1", ".", "0", "0">>
Bare11 == <<"1", ".", "1">>
Bare118 == <<"1", ".", "1", "8">>

WithV(s) == <<"v">> \o s

Digits == {"0", "1", "2", "3", "4", "5", "6", "7", "8", "9"}

RECURSIVE AllDigits(_)
AllDigits(s) == IF s = << >> THEN TRUE ELSE Head(s) \in Digits /\ AllDigits(Tail(s))

\* Validation.VERSION_PATTERN.test(s):  /^v?\d+\.\d+$/
VersionPatternTest(s) ==
    LET t == IF StartsWith(s, <<"v">>) THEN Tail(s) ELSE s
    IN \E i \in 2..(Len(t) - 1) :
          /\ t[i] = "."
          /\ AllDigits(SubSeq(t, 1, i - 1))
          /\ AllDigits(SubSeq(t, i + 1, Len(t)))

----------------------------------------------------------------------------
(* Digests.  crypto.createHash is modelled by an injective encoding of the  *)
(* content into a lower-case hex string of the algorithm's length.          *)

Sha256Length == 64
Md5Length == 32

Bytes == {0, 1}

HexOfByte(b) == IF b = 0 THEN "a" ELSE "b"

Pad(s, n, c) == s \o [i \in 1..(n - Len(s)) |-> c]

\* crypto.createHash('sha256') ... digest('hex')
Sha256Hex(content) ==
    Pad([i \in 1..Len(content) |-> HexOfByte(content[i])] \o <<"9">>, Sha256Length, "0")

\* crypto.createHash('md5') ... digest('hex')
Md5Hex(content) ==
    Pad([i \in 1..Len(content) |-> HexOfByte(content[i])] \o <<"5">>, Md5Length, "1")

LowerChar(c) ==
    CASE c = "A" -> "a" [] c = "B" -> "b" [] c = "C" -> "c"
      [] c = "D" -> "d" [] c = "E" -> "e" [] c = "F" -> "f"
      [] OTHER -> c

UpperChar(c) ==
    CASE c = "a" -> "A" [] c = "b" -> "B" [] c = "c" -> "C"
      [] c = "d" -> "D" [] c = "e" -> "E" [] c = "f" -> "F"
      [] OTHER -> c

\* String.prototype.toLowerCase
ToLowerCase(s) == [i \in 1..Len(s) |-> LowerChar(s[i])]

\* String.prototype.toUpperCase
ToUpperCase(s) == [i \in 1..Len(s) |-> UpperChar(s[i])]

----------------------------------------------------------------------------
(* VersionManager *)

\* versions-list.json when fs.existsSync is false
NoFile == [versions |-> << >>, lastScraped |-> -1]

\* new Date().toISOString()
NowISO == clock

\* the EBVersion literal of addOrUpdateVersion's push
NewRecord(version, hash, checksum, releaseDate) ==
    [version |-> version, hash |-> hash, lastUpdated |-> NowISO,
     checksum |-> checksum, releaseDate |-> releaseDate, hashType |-> Undefined]

\* Array.prototype.find over versions, as the index of the first match (0: undefined)
FindVersion(versions, id) ==
    IF \E i \in 1..Len(versions) : versions[i].version = id
    THEN CHOOSE i \in 1..Len(versions) :
            /\ versions[i].version = id
            /\ \A j \in 1..(i - 1) : versions[j].version # id
    ELSE 0

\* getVersion with the exact match only
GetVersionIndexExactOnly(versions, version) == FindVersion(versions, version)

\* VersionManager.getVersion, as the index of the record it returns (0: undefined)
GetVersionIndex(versions, version) ==
    LET exact == FindVersion(versions, version)
        withV == IF exact = 0 /\ ~StartsWith(version, <<"v">>)
                 THEN FindVersion(versions, WithV(version))
                 ELSE exact
        withoutV == IF withV = 0 /\ StartsWith(version, <<"v">>)
                    THEN FindVersion(versions, Substring1(version))
                    ELSE withV
    IN withoutV

\* this.getVersion(version) !== undefined
hasVersion(version) == GetVersionIndex(data.versions, version) # 0

\* the versions array after addOrUpdateVersion's if/else
UpsertVersions(versions, version, hash, checksum, releaseDate) ==
    LET i == GetVersionIndex(versions, version)
    IN IF i # 0
       THEN [versions EXCEPT ![i] =
                [@ EXCEPT !.hash = hash,
                          !.lastUpdated = NowISO,
                          !.checksum = IF checksum # Undefined THEN checksum ELSE @,
                          !.releaseDate = IF releaseDate # Undefined THEN releaseDate ELSE @]]
       ELSE Append(versions, NewRecord(version, hash, checksum, releaseDate))

\* VersionManager.saveVersionsData: when fs.writeFileSync throws, the error is
\* caught and logged and the file keeps its content
SaveVersionsData(newData) ==
    file' = IF diskWritable THEN newData ELSE file

\* VersionManager.loadVersionsData
LoadVersionsData(f) ==
    IF f # NoFile THEN f ELSE [versions |-> << >>, lastScraped |-> 0]

\* the data after VersionManager.addOrUpdateVersion
DataAfterUpsert(version, hash, checksum, releaseDate) ==
    [data EXCEPT !.versions = UpsertVersions(data.versions, version, hash, checksum, releaseDate)]

addOrUpdateVersion(version, hash, checksum, releaseDate) ==
    /\ data' = DataAfterUpsert(version, hash, checksum, releaseDate)
    /\ SaveVersionsData(data')
    /\ lastCall' = [op |-> "addOrUpdateVersion", version |-> version]

updateLastScraped ==
    /\ data' = [data EXCEPT !.lastScraped = NowISO]
    /\ SaveVersionsData(data')
    /\ lastCall' = [op |-> "updateLastScraped", version |-> Undefined]

setVersions(versions) ==
    /\ data' = [versions |-> versions, lastScraped |-> NowISO]
    /\ SaveVersionsData(data')
    /\ lastCall' = [op |-> "setVersions", version |-> Undefined]

\* time passes
Tick ==
    /\ clock < MaxClock
    /\ clock' = clock + 1

----------------------------------------------------------------------------
(* The catalog on its own: the calls a client of VersionManager can make *)

\* the identifiers callers hand to the catalog: those the CLI's
\* Validation.VERSION_PATTERN.test lets through
CandidateIds ==
    {Bare11, WithV(Bare11), Bare118, WithV(Bare118), WithV(WithV(Bare11)), <<"1", ".">>}

CatalogIds == {id \in CandidateIds : VersionPatternTest(id)}

HashA == Sha256Hex(<<0>>)
HashB == Sha256Hex(<<1>>)

ReleaseDate1 == <<"2024-01-01">>

\* a record as versions-list.json holds it
FileRecord(version, checksum) ==
    [version |-> version, hash |-> HashA, lastUpdated |-> 0,
     checksum |-> checksum, releaseDate |-> Undefined, hashType |-> Undefined]

RECURSIVE SeqsUpTo(_, _)
SeqsUpTo(S, n) ==
    IF n = 0 THEN {<< >>}
    ELSE LET shorter == SeqsUpTo(S, n - 1)
         IN shorter \cup {Append(q, x) : q \in shorter, x \in S}

\* the arrays handed to setVersions
SetVersionsInputs == SeqsUpTo({FileRecord(id, Undefined) : id \in CatalogIds}, MaxSetLen)

\* the versions-list.json files the constructor may find
InitialFiles ==
    {NoFile,
     [versions |-> <<FileRecord(Bare118, HashB)>>, lastScraped |-> 0]}


CallAddOrUpdateVersion ==
    \E version \in CatalogIds, hash \in {HashA, HashB},
       checksum \in {Undefined, HashB}, releaseDate \in {Undefined} :
        /\ GetVersionIndex(data.versions, version) # 0 \/ Len(data.versions) < MaxRecords
        /\ addOrUpdateVersion(version, hash, checksum, releaseDate)
        /\ UNCHANGED <<clock, diskWritable>>

CallUpdateLastScraped ==
    /\ updateLastScraped
    /\ UNCHANGED <<clock, diskWritable>>

CallSetVersions ==
    \E versions \in SetVersionsInputs :
        /\ setVersions(versions)
        /\ UNCHANGED <<clock, diskWritable>>

CatalogTick ==
    /\ Tick
    /\ UNCHANGED <<data, file, diskWritable, lastCall>>




----------------------------------------------------------------------------
(* Downloader *)

SUCCESS_STATUS == 200
PERCENTAGE_MULTIPLIER == 100

NotCreated == <<-1>>

\* a response callback that lets every status through
IsAnyStatus(statusCode) == TRUE

\* the negation of response.statusCode !== HTTP.SUCCESS_STATUS
IsSuccessStatus(statusCode) == statusCode = SUCCESS_STATUS

\* a verification that removes the file it rejects
UnlinkOnMismatch(d, verified) == IF verified THEN d ELSE NotCreated

\* the file at outputPath after the verification: downloadAndVerify has no
\* fs.unlink, fs.truncate or fs.rm on any path
DiskAfterVerify(d, verified) == d

\* the bytes of the file at outputPath
Written(d) == IF d = NotCreated THEN << >> ELSE d
NoResult == [filePath |-> Undefined]
NoError == <<"no error">>
HashVerificationFailed == <<"Hash verification failed!">>
RequestTimeout == <<"Request timeout">>
HttpError(status) == <<"HTTP", status>>
ENOENT == <<"ENOENT">>
ECONNRESET == <<"ECONNRESET">>

MD5 == <<"MD5">>
SHA256 == <<"SHA256">>

Encodings == {"none", "gzip", "deflate", "br"}

Magic(e) == CASE e = "gzip" -> 31 [] e = "deflate" -> 120 [] OTHER -> 206

\* what the server puts on the wire for content S under a content-encoding
Encode(e, S) ==
    IF e = "none" THEN S ELSE <<Magic(e)>> \o [i \in 1..Len(S) |-> 1 - S[i]]

\* the stream downloadFile reads: the response itself, or the response piped
\* through zlib.createGunzip / createInflate / createBrotliDecompress
Decode(contentEncoding, W) ==
    IF contentEncoding \in {"gzip", "deflate", "br"}
    THEN [i \in 1..(Len(W) - 1) |-> 1 - W[i + 1]]
    ELSE W

\* parseInt(response.headers['content-length'] || '0', 10)
ContentLength(server) ==
    IF server.advertised THEN Len(Encode(server.encoding, server.body)) ELSE 0

\* the share of the transfer that is still to come
PercentageRemaining(done, total) ==
    [num |-> (total - done) * PERCENTAGE_MULTIPLIER, den |-> total]

\* (bytesDownloaded / totalBytes) * PERCENTAGE_MULTIPLIER, as a fraction
Percentage(done, total) == [num |-> done * PERCENTAGE_MULTIPLIER, den |-> total]

\* the algorithm inferred from the length of expectedHash alone
IsMD5ByLength(expectedHash, hashType) ==
    Truthy(expectedHash) /\ Len(expectedHash) = Md5Length

\* const isMD5Expected = hashType === 'MD5' || (expectedHash && expectedHash.length === 32 && !hashType)
IsMD5Expected(expectedHash, hashType) ==
    \/ hashType = MD5
    \/ (Truthy(expectedHash) /\ Len(expectedHash) = Md5Length /\ ~Truthy(hashType))

\* calculateMD5Checksum or calculateChecksum over the file as it is read
Checksum(expectedHash, hashType, content) ==
    IF IsMD5Expected(expectedHash, hashType) THEN Md5Hex(content) ELSE Sha256Hex(content)

HASH_PREVIEW_LENGTH == 16

\* a comparison of the displayed previews of the two values
HashMatchesPreview(sum, expectedHash) ==
    SubSeq(ToLowerCase(sum), 1, HASH_PREVIEW_LENGTH)
        = SubSeq(ToLowerCase(expectedHash), 1, HASH_PREVIEW_LENGTH)

\* a comparison that keeps the letter case
HashMatchesExact(sum, expectedHash) == sum = expectedHash

\* checksum.toLowerCase() === expectedHash.toLowerCase()
HashMatches(sum, expectedHash) == ToLowerCase(sum) = ToLowerCase(expectedHash)

\* the expected digests a caller may hold for a file of content S
FlipLast(h) == [h EXCEPT ![Len(h)] = IF @ = "0" THEN "1" ELSE "0"]

ExpectedHashes(S) ==
    {Undefined, EmptyString,
     Sha256Hex(S), ToUpperCase(Sha256Hex(S)), FlipLast(Sha256Hex(S)),
     Md5Hex(S), FlipLast(Md5Hex(S)),
     Sha256Hex(<<1, 1, 1>>)}

Bodies == SeqsUpTo(Bytes, MaxBody)

DownloadIdle ==
    /\ dlPc = "idle"
    /\ dlArgs = [expectedHash |-> Undefined, hashType |-> Undefined]
    /\ dlServer = [status |-> SUCCESS_STATUS, encoding |-> "none", body |-> << >>,
                   advertised |-> FALSE]
    /\ stream = << >>
    /\ totalBytes = 0
    /\ bytesDownloaded = 0
    /\ progress = << >>
    /\ pending = << >>
    /\ disk = NotCreated
    /\ fileSize = 0
    /\ dlChecksum = Undefined
    /\ dlResult = NoResult
    /\ dlError = NoError
    /\ dlEvents = {}

\* a promise that every reject settles anew
AlwaysPending(pc) == TRUE

\* downloadFile's promise is pending: neither resolve nor reject has been called
PromisePending(pc) == pc \in {"request", "stream"}

\* reject(error) of downloadFile's promise: the first settlement stands, a later
\* call changes nothing; a rejection is what downloadAndVerify's await throws
Reject(error) ==
    IF PromisePending(dlPc)
    THEN dlPc' = "thrown" /\ dlError' = error
    ELSE UNCHANGED <<dlPc, dlError>>

\* downloadFile is called on its own: protocol.get and the timeout
DlCallFile ==
    /\ dlPc = "idle"
    /\ \E body \in Bodies, encoding \in Encodings, status \in {SUCCESS_STATUS, 404},
          advertised \in BOOLEAN :
        dlServer' = [status |-> status, encoding |-> encoding, body |-> body,
                     advertised |-> advertised]
    /\ dlPc' = "request"
    /\ UNCHANGED <<dlArgs, stream, totalBytes, bytesDownloaded, progress, pending, disk,
                   fileSize, dlChecksum, dlResult, dlError, dlEvents>>

\* downloadAndVerify is called: downloadFile issues protocol.get and arms the timeout
DlCall ==
    /\ dlPc = "idle"
    /\ \E body \in Bodies, encoding \in Encodings, status \in {SUCCESS_STATUS, 404},
          advertised \in BOOLEAN, hashType \in {Undefined, MD5, SHA256} :
        \E expectedHash \in ExpectedHashes(body) :
            /\ dlArgs' = [expectedHash |-> expectedHash, hashType |-> hashType]
            /\ dlServer' = [status |-> status, encoding |-> encoding, body |-> body,
                            advertised |-> advertised]
    /\ dlPc' = "request"
    /\ UNCHANGED <<stream, totalBytes, bytesDownloaded, progress, pending, disk,
                   fileSize, dlChecksum, dlResult, dlError, dlEvents>>

\* the response callback: a status other than 200 rejects
DlResponseBadStatus ==
    /\ dlPc = "request"
    /\ ~IsSuccessStatus(dlServer.status)
    /\ Reject(HttpError(dlServer.status))
    /\ UNCHANGED <<dlArgs, dlServer, stream, totalBytes, bytesDownloaded, progress,
                   pending, disk, fileSize, dlChecksum, dlResult, dlEvents>>

\* the response callback on status 200: the stream, the write stream and the handlers
DlResponseOk ==
    /\ dlPc = "request"
    /\ IsSuccessStatus(dlServer.status)
    /\ totalBytes' = ContentLength(dlServer)
    /\ bytesDownloaded' = 0
    /\ stream' = Decode(dlServer.encoding, Encode(dlServer.encoding, dlServer.body))
    /\ dlPc' = "stream"
    /\ UNCHANGED <<dlArgs, dlServer, progress, pending, disk, fileSize, dlChecksum,
                   dlResult, dlError, dlEvents>>

\* stream.on('data') and the pipe's write of the same chunk to fileStream
DlData ==
    /\ dlPc = "stream"
    /\ \E n \in 1..Len(stream) :
        LET chunk == SubSeq(stream, 1, n)
        IN /\ stream' = SubSeq(stream, n + 1, Len(stream))
           /\ bytesDownloaded' = bytesDownloaded + Len(chunk)
           /\ progress' = IF totalBytes > 0
                          THEN Append(progress,
                                      [bytesDownloaded |-> bytesDownloaded',
                                       totalBytes |-> totalBytes,
                                       percentage |-> Percentage(bytesDownloaded', totalBytes)])
                          ELSE progress
           /\ pending' = pending \o chunk
    /\ UNCHANGED <<dlPc, dlArgs, dlServer, totalBytes, disk, fileSize, dlChecksum,
                   dlResult, dlError, dlEvents>>

\* a file left at outputPath by an earlier run
OldFile == <<7, 7>>

\* the write stream of this call has not opened the file
Unopened(d) == d \in {NotCreated, OldFile}

\* a callback that creates the write stream before it looks at the status
CreatedForAnyStatus(statusCode) == TRUE

\* fs.createWriteStream(outputPath) stands below the return of the status
\* check: it is reached for the success status only
WriteStreamCreated(statusCode) == IsSuccessStatus(statusCode)

\* fs.createWriteStream's open completes: the file exists, truncated
DlFileOpened ==
    /\ dlPc \notin {"idle", "request"}
    /\ WriteStreamCreated(dlServer.status)
    /\ Unopened(disk)
    /\ disk' = << >>
    /\ UNCHANGED <<dlPc, dlArgs, dlServer, stream, totalBytes, bytesDownloaded, progress,
                   pending, fileSize, dlChecksum, dlResult, dlError, dlEvents>>

\* a buffered write of fileStream completes: its bytes are in the file
DlFlush ==
    /\ ~Unopened(disk)
    /\ pending # << >>
    /\ \E n \in 1..Len(pending) :
        /\ disk' = disk \o SubSeq(pending, 1, n)
        /\ pending' = SubSeq(pending, n + 1, Len(pending))
    /\ UNCHANGED <<dlPc, dlArgs, dlServer, stream, totalBytes, bytesDownloaded, progress,
                   fileSize, dlChecksum, dlResult, dlError, dlEvents>>

\* stream.on('end'): fileStream.end(); resolve()
DlEnd ==
    /\ dlPc = "stream"
    /\ stream = << >>
    /\ dlPc' = "resolved"
    /\ UNCHANGED <<dlArgs, dlServer, stream, totalBytes, bytesDownloaded, progress,
                   pending, disk, fileSize, dlChecksum, dlResult, dlError, dlEvents>>

\* request.on('error'): reject(error).  The request fails before a response
\* is in, or after it was left unread or destroyed
DlRequestError ==
    /\ \/ dlPc = "request"
       \/ dlPc = "thrown" /\ dlError \in {RequestTimeout, HttpError(dlServer.status)}
    /\ "error" \notin dlEvents
    /\ dlEvents' = dlEvents \cup {"error"}
    /\ Reject(ECONNRESET)
    /\ UNCHANGED <<dlArgs, dlServer, stream, totalBytes, bytesDownloaded, progress,
                   pending, disk, fileSize, dlChecksum, dlResult>>

\* request.setTimeout's callback: request.destroy(); reject(new Error('Request timeout'))
DlTimeout ==
    /\ dlPc # "idle"
    /\ "timeout" \notin dlEvents
    /\ dlEvents' = dlEvents \cup {"timeout"}
    /\ Reject(RequestTimeout)
    /\ UNCHANGED <<dlArgs, dlServer, stream, totalBytes, bytesDownloaded, progress,
                   pending, disk, fileSize, dlChecksum, dlResult>>

\* after await downloadFile: fs.statSync(outputPath)
DlStat ==
    /\ dlPc = "resolved"
    /\ IF disk = NotCreated
       THEN /\ dlPc' = "thrown"
            /\ dlError' = ENOENT
            /\ UNCHANGED fileSize
       ELSE /\ dlPc' = "statted"
            /\ fileSize' = Len(disk)
            /\ UNCHANGED dlError
    /\ UNCHANGED <<dlArgs, dlServer, stream, totalBytes, bytesDownloaded, progress,
                   pending, disk, dlChecksum, dlResult, dlEvents>>

\* the checksum of the file, the comparison with expectedHash, the result
DlVerify ==
    /\ dlPc = "statted"
    /\ dlChecksum' = Checksum(dlArgs.expectedHash, dlArgs.hashType, disk)
    /\ IF Truthy(dlArgs.expectedHash) /\ ~HashMatches(dlChecksum', dlArgs.expectedHash)
       THEN /\ dlPc' = "thrown"
            /\ dlError' = HashVerificationFailed
            /\ disk' = DiskAfterVerify(disk, FALSE)
            /\ UNCHANGED dlResult
       ELSE /\ dlPc' = "returned"
            /\ dlResult' = [filePath |-> <<"outputPath">>, fileSize |-> fileSize,
                            checksum |-> dlChecksum', downloadTime |-> NowISO]
            /\ disk' = DiskAfterVerify(disk, TRUE)
            /\ UNCHANGED dlError
    /\ UNCHANGED <<dlArgs, dlServer, stream, totalBytes, bytesDownloaded, progress,
                   pending, fileSize, dlEvents>>


\* what one call of downloadAndVerify can come to, for a server holding `body`:
\* the rejections of downloadFile, and the return or the verification error for
\* every content the file can have when it is read
Prefixes(S) == {SubSeq(S, 1, n) : n \in 0..Len(S)}

DownloadAndVerifyOutcomes(body, expectedHash, hashType) ==
    {[kind |-> "thrown", error |-> e, checksum |-> Undefined] :
        e \in {HttpError(404), RequestTimeout, ECONNRESET, ENOENT}}
    \cup
    {LET sum == Checksum(expectedHash, hashType, content)
     IN IF Truthy(expectedHash) /\ ~HashMatches(sum, expectedHash)
        THEN [kind |-> "thrown", error |-> HashVerificationFailed, checksum |-> Undefined]
        ELSE [kind |-> "returned", error |-> NoError, checksum |-> sum] :
        content \in Prefixes(body)}

----------------------------------------------------------------------------
(* Scraper *)

Null == <<"null">>
Running == [kind |-> "running"]
NoResponse == [url |-> Null, contentType |-> Undefined]
NotFetched ==
    [kind |-> "none", url |-> Null, path |-> Null, error |-> NoError, checksum |-> Undefined]

VersionNotFound == <<"VERSION_NOT_FOUND">>
ControlNotFound == <<"Could not find download button">>
RedirectNotCaptured == <<"Could not capture download URL">>
LaunchFailed == <<"puppeteer.launch failed">>
NavigationFailed == <<"page.goto failed">>

ARCGIS == "arcgis-experience-builder"
ZIP_EXTENSION == <<".zip">>
ARCGIS_DOWNLOAD == <<ARCGIS, "-">>
APPLICATION_ZIP == <<"application/zip">>

\* the releases the vendor page offers, and the file the vendor serves for each
PageReleases == {Bare118, Bare11, Bare10}

ArtifactBytes(release) ==
    CASE release = Bare118 -> <<0>>
      [] release = Bare11 -> <<1>>
      [] OTHER -> <<0, 1>>

\* the data-component-link attribute of a release's download control
ComponentLink(release) == <<"downloads/", ARCGIS, "-">> \o release

\* the URL the vendor redirects to after the control of a release is clicked
ArtifactUrl(release) == <<"https://", ARCGIS, "-">> \o release \o ZIP_EXTENSION

\* the URL of the same file on the vendor's second host
MirrorUrl(release) == <<"https://", "mirror/", ARCGIS, "-">> \o release \o ZIP_EXTENSION

ReleaseOfUrl(url) == CHOOSE r \in PageReleases : url \in {ArtifactUrl(r), MirrorUrl(r)}

NoRepeat(q) ==
    \A i, j \in 1..Len(q) : i # j => q[i] # q[j]

Pages == {q \in SeqsUpTo(PageReleases, MaxControls) : NoRepeat(q)}

\* the responses the browser may see after the control of a release is clicked
ResponsesAfterClick(release) ==
    {[url |-> ArtifactUrl(release), contentType |-> APPLICATION_ZIP],
     [url |-> MirrorUrl(release), contentType |-> APPLICATION_ZIP],
     [url |-> ArtifactUrl(release), contentType |-> Undefined],
     [url |-> ArtifactUrl(release), contentType |-> <<"text/html">>],
     [url |-> <<"https://", ARCGIS, "-">> \o release \o <<".json">>,
      contentType |-> APPLICATION_ZIP],
     [url |-> <<"https://", "fonts">> \o ZIP_EXTENSION, contentType |-> APPLICATION_ZIP],
     [url |-> <<"https://", "js.arcgis.com">>, contentType |-> <<"text/javascript">>]}

\* an observer that is attached only after the click
AttachedLater == FALSE

\* page.on('response', ...) stands before the click in both methods: the
\* observer listens once the control is found
AttachedBeforeClick == TRUE

\* downloadUrl = url in the observer: the URL of the response replaces what
\* was recorded
Record(current, url) == url

\* an observer that takes the URL of any response
IsAnyResponse(response) == TRUE

\* an observer that looks at the URL only
IsArtifactUrl(response) ==
    /\ Includes(response.url, ARCGIS_DOWNLOAD)
    /\ Includes(response.url, ZIP_EXTENSION)

\* the condition of the response observer
IsArtifactResponse(response) ==
    /\ Includes(response.url, ARCGIS_DOWNLOAD)
    /\ Includes(response.url, ZIP_EXTENSION)
    /\ Truthy(response.contentType)
    /\ Includes(response.contentType, APPLICATION_ZIP)

\* String.prototype.replace('v', ''): the first "v" is removed
ReplaceFirstV(s) ==
    IF \E i \in 1..Len(s) : s[i] = "v"
    THEN LET i == CHOOSE k \in 1..Len(s) : s[k] = "v" /\ \A j \in 1..(k - 1) : s[j] # "v"
         IN SubSeq(s, 1, i - 1) \o SubSeq(s, i + 1, Len(s))
    ELSE s

\* a normalisation that leaves the trailing zeros in place
KeepTrailingZeros(s) == s

\* String.prototype.replace(/\.0+$/, '.0')
ReplaceTrailingZeros(s) ==
    LET Match(i) == /\ s[i] = "."
                    /\ i < Len(s)
                    /\ \A j \in (i + 1)..Len(s) : s[j] = "0"
    IN IF \E i \in 1..Len(s) : Match(i)
       THEN LET i == CHOOSE k \in 1..Len(s) : Match(k) /\ \A j \in 1..(k - 1) : ~Match(j)
            IN SubSeq(s, 1, i - 1) \o <<".", "0">>
       ELSE s

\* const normalizedVersion = version.replace('v', '').replace(/\.0+$/, '.0')
NormalizedVersion(version) == ReplaceTrailingZeros(ReplaceFirstV(version))

\* dataComponentLink && dataComponentLink.includes(normalizedVersion)
LinkMatches(link, normalizedVersion) == Includes(link, normalizedVersion)

\* downloadVersion's loop over page.$$(...): the first control whose link matches (0: null)
FindDownloadButton(controls, version) ==
    LET Hit(i) == LinkMatches(ComponentLink(controls[i]), NormalizedVersion(version))
    IN IF \E i \in 1..Len(controls) : Hit(i)
       THEN CHOOSE i \in 1..Len(controls) : Hit(i) /\ \A j \in 1..(i - 1) : ~Hit(j)
       ELSE 0

\* Selectors.DOWNLOAD_BUTTON.replace('{version}', versionForSelector): the selector
\* holds no '{version}', so it is unchanged and matches every download control
SelectorMatches(link, versionForSelector) == Includes(link, <<ARCGIS>>)

\* getVersionHash's page.$(selector): the first element the selector matches (0: null)
QueryDownloadButton(controls, version) ==
    LET versionForSelector == IF StartsWith(version, <<"v">>) THEN Substring1(version)
                              ELSE version
        Hit(i) == SelectorMatches(ComponentLink(controls[i]), versionForSelector)
    IN IF \E i \in 1..Len(controls) : Hit(i)
       THEN CHOOSE i \in 1..Len(controls) : Hit(i) /\ \A j \in 1..(i - 1) : ~Hit(j)
       ELSE 0

\* the catch blocks: downloadVersion rethrows, getVersionHash returns null
OnError(op, error) ==
    IF op = "downloadVersion"
    THEN [kind |-> "thrown", error |-> error]
    ELSE [kind |-> "returned", value |-> Null]

\* a finally block that closes the session only when nothing was thrown
FinallyBrowserOnSuccess(b, outcome) ==
    IF b = "open" /\ outcome.kind = "returned" THEN "closed" ELSE b

\* the finally blocks: if (browser) await browser.close()
FinallyBrowser(b, outcome) == IF b = "open" THEN "closed" ELSE b

(* PathValidator (src/unnamed/part_001) *)

MAX_PATH_LENGTH == 4096
MAX_FILENAME_LENGTH == 255

EMPTY_PATH == <<"Output path cannot be empty">>
PATH_TOO_LONG == <<"Output path is too long">>
FILENAME_TOO_LONG == <<"Filename is too long">>
INVALID_PATH_FORMAT == <<"Invalid output path format">>
INVALID_PATH_CHARS == <<"Output path contains invalid characters">>

\* String.prototype.trim: white space at both ends is removed
RECURSIVE TrimStart(_)
TrimStart(s) == IF s # << >> /\ Head(s) = " " THEN TrimStart(Tail(s)) ELSE s

RECURSIVE TrimEnd(_)
TrimEnd(s) ==
    IF s # << >> /\ s[Len(s)] = " " THEN TrimEnd(SubSeq(s, 1, Len(s) - 1)) ELSE s

Trim(s) == TrimEnd(TrimStart(s))

\* path.basename: what follows the last separator
Basename(p) ==
    IF \E i \in 1..Len(p) : p[i] = "/"
    THEN LET i == CHOOSE k \in 1..Len(p) : p[k] = "/" /\ \A j \in (k + 1)..Len(p) : p[j] # "/"
         IN SubSeq(p, i + 1, Len(p))
    ELSE p

\* sanitize(filename): the characters no file name may hold are removed
Sanitize(filename) ==
    SelectSeq(filename, LAMBDA c : c \notin {"/", "?", "<", ">", "\\", ":", "*", "|", "\""})

\* path.resolve of a relative path: the path below the working directory
PathResolve(p) == <<"/cwd/">> \o p

\* PathValidator.validateOutputPath (on a POSIX platform)
ValidateOutputPath(outputPath) ==
    LET trimmedPath == Trim(outputPath)
        filename == Basename(trimmedPath)
        Invalid(error) == [isValid |-> FALSE, error |-> error, normalizedPath |-> Undefined]
    IN IF ~Truthy(outputPath) \/ Len(trimmedPath) = 0 THEN Invalid(EMPTY_PATH)
       ELSE IF Len(trimmedPath) > MAX_PATH_LENGTH THEN Invalid(PATH_TOO_LONG)
       ELSE IF Len(filename) > MAX_FILENAME_LENGTH THEN Invalid(FILENAME_TOO_LONG)
       ELSE IF Includes(trimmedPath, <<"..">>) \/ Includes(trimmedPath, <<"~">>)
            THEN Invalid(INVALID_PATH_FORMAT)
       ELSE IF Sanitize(filename) # filename THEN Invalid(INVALID_PATH_CHARS)
       ELSE [isValid |-> TRUE, error |-> NoError, normalizedPath |-> PathResolve(trimmedPath)]

\* `${FileNames.DEFAULT_OUTPUT_PREFIX}-${version}${FileNames.DEFAULT_OUTPUT_EXTENSION}`
DefaultOutputPath(version) == <<ARCGIS, "-">> \o version \o ZIP_EXTENSION

\* the path handed to downloadAndVerify: downloadVersion's finalOutputPath
\* (validatedOutputPath || default), getVersionHash's outputPath (the default)
OutputPathOf(op, validated, version) ==
    IF op = "downloadVersion" /\ Truthy(validated) THEN validated
    ELSE DefaultOutputPath(version)

ScraperIdle ==
    /\ scOp = "none"
    /\ scPc = "idle"
    /\ scVersion = Undefined
    /\ validatedOutputPath = Undefined
    /\ versionData = 0
    /\ browser = "none"
    /\ downloadButton = 0
    /\ listening = FALSE
    /\ clicked = 0
    /\ responses = 0
    /\ lastResponse = NoResponse
    /\ downloadUrl = Null
    /\ fetched = NotFetched
    /\ scOutcome = Running

RequestVersions == {Bare11, WithV(Bare118), Bare100, WithV(Bare100), <<"1", ".", "2">>}

\* the outputPath arguments of downloadVersion
MyEbZip == <<"my-eb.zip">>
OutputPaths == {Undefined, MyEbZip, <<" ", "my-eb.zip">>, <<"..", "/", "my-eb.zip">>}

\* a lookup whose miss goes unnoticed
NeverMissing(found) == FALSE

\* if (!versionData): getVersion returned undefined
VersionMissing(found) == found = 0

\* downloadVersion(version, outputPath) up to the try block: the lookup, the
\* validation of the output path, and the errors thrown by either
DownloadVersionCall(version, outputPath) ==
    LET validation == ValidateOutputPath(outputPath)
        found == GetVersionIndex(data.versions, version)
    IN /\ scVersion' = version
       /\ versionData' = found
       /\ IF VersionMissing(found)
          THEN /\ scPc' = "done"
               /\ scOutcome' = [kind |-> "thrown", error |-> VersionNotFound]
               /\ validatedOutputPath' = Undefined
          ELSE IF Truthy(outputPath) /\ ~validation.isValid
          THEN /\ scPc' = "done"
               /\ scOutcome' = [kind |-> "thrown", error |-> validation.error]
               /\ validatedOutputPath' = outputPath
          ELSE /\ scPc' = "launch"
               /\ scOutcome' = Running
               /\ validatedOutputPath' = IF Truthy(outputPath) THEN validation.normalizedPath
                                         ELSE outputPath
       /\ scOp' = "downloadVersion"
       /\ browser' = "none"
       /\ downloadButton' = 0
       /\ listening' = FALSE
       /\ clicked' = 0
       /\ responses' = 0
       /\ lastResponse' = NoResponse
       /\ downloadUrl' = Null
       /\ fetched' = NotFetched
       /\ UNCHANGED page

\* getVersionHash(version) up to the try block
GetVersionHashCall(version) ==
    /\ scVersion' = version
    /\ scOp' = "getVersionHash"
    /\ scPc' = "launch"
    /\ scOutcome' = Running
    /\ validatedOutputPath' = Undefined
    /\ versionData' = 0
    /\ browser' = "none"
    /\ downloadButton' = 0
    /\ listening' = FALSE
    /\ clicked' = 0
    /\ responses' = 0
    /\ lastResponse' = NoResponse
    /\ downloadUrl' = Null
    /\ fetched' = NotFetched
    /\ UNCHANGED page

\* downloadVersion is called
DvCall ==
    /\ scPc = "idle"
    /\ \E version \in RequestVersions, outputPath \in OutputPaths :
        DownloadVersionCall(version, outputPath)

\* getVersionHash is called; its caller, CLI.handleGetVersion, has checked
\* hasVersion(version)
GvCall ==
    /\ scPc = "idle"
    /\ \E version \in RequestVersions :
        /\ hasVersion(version)
        /\ GetVersionHashCall(version)

\* puppeteer.launch
ScLaunch ==
    /\ scPc = "launch"
    /\ \/ /\ browser' = "open"
          /\ scPc' = "navigate"
          /\ UNCHANGED scOutcome
       \/ /\ scOutcome' = OnError(scOp, LaunchFailed)
          /\ scPc' = "finally"
          /\ UNCHANGED browser
    /\ UNCHANGED <<page, scOp, lastResponse, validatedOutputPath, scVersion, versionData, downloadButton, listening, clicked,
                   responses, downloadUrl, fetched>>

\* browser.newPage, setExtraHTTPHeaders, page.goto and the page-load wait
ScNavigate ==
    /\ scPc = "navigate"
    /\ \/ /\ scPc' = "find"
          /\ UNCHANGED scOutcome
       \/ /\ scOutcome' = OnError(scOp, NavigationFailed)
          /\ scPc' = "finally"
    /\ UNCHANGED <<page, scOp, lastResponse, validatedOutputPath, scVersion, versionData, browser, downloadButton,
                   listening, clicked,
                   responses, downloadUrl, fetched>>

\* downloadVersion: the search for the control, then page.on('response')
DvFind ==
    /\ scPc = "find"
    /\ scOp = "downloadVersion"
    /\ LET button == FindDownloadButton(page, scVersion)
       IN IF button = 0
          THEN /\ scOutcome' = OnError(scOp, ControlNotFound)
               /\ scPc' = "finally"
               /\ UNCHANGED <<downloadButton, listening>>
          ELSE /\ downloadButton' = button
               /\ listening' = AttachedBeforeClick
               /\ scPc' = "click"
               /\ UNCHANGED scOutcome
    /\ UNCHANGED <<page, scOp, lastResponse, validatedOutputPath, scVersion, versionData, browser, clicked, responses,
                   downloadUrl, fetched>>

\* getVersionHash: page.$ for the control, then page.on('response')
GvFind ==
    /\ scPc = "find"
    /\ scOp = "getVersionHash"
    /\ LET button == QueryDownloadButton(page, scVersion)
       IN IF button = 0
          THEN /\ scOutcome' = [kind |-> "returned", value |-> Null]
               /\ scPc' = "finally"
               /\ UNCHANGED <<downloadButton, listening>>
          ELSE /\ downloadButton' = button
               /\ listening' = AttachedBeforeClick
               /\ scPc' = "click"
               /\ UNCHANGED scOutcome
    /\ UNCHANGED <<page, scOp, lastResponse, validatedOutputPath, scVersion, versionData, browser, clicked, responses,
                   downloadUrl, fetched>>

\* page.evaluate(button => button.click()): the capture window opens
ScClick ==
    /\ scPc = "click"
    /\ clicked' = downloadButton
    /\ scPc' = "window"
    /\ UNCHANGED <<page, scOp, lastResponse, validatedOutputPath, scVersion, versionData, browser, downloadButton, listening,
                   responses, downloadUrl, fetched, scOutcome>>

\* a response reaches the observer
ScResponse ==
    /\ scPc \in {"window", "fetch", "store"}
    /\ browser = "open"
    /\ responses < MaxResponses
    /\ \E response \in UNION {ResponsesAfterClick(r) : r \in {page[clicked]}} :
        /\ lastResponse' = response
        /\ downloadUrl' = IF listening /\ IsArtifactResponse(response)
                          THEN Record(downloadUrl, response.url)
                          ELSE downloadUrl
    /\ responses' = responses + 1
    /\ UNCHANGED <<page, scOp, validatedOutputPath, scPc, scVersion, versionData, browser, downloadButton,
                   listening, clicked,
                   fetched, scOutcome>>

\* the capture window's timer fires: if (downloadUrl) ... else ...
ScWindowElapsed ==
    /\ scPc = "window"
    /\ IF downloadUrl # Null
       THEN /\ scPc' = "fetch"
            /\ fetched' = [NotFetched EXCEPT !.kind = "started", !.url = downloadUrl,
                                             !.path = OutputPathOf(scOp, validatedOutputPath,
                                                                   scVersion)]
            /\ UNCHANGED scOutcome
       ELSE /\ scPc' = "finally"
            /\ scOutcome' = IF scOp = "downloadVersion"
                            THEN OnError(scOp, RedirectNotCaptured)
                            ELSE [kind |-> "returned", value |-> Null]
            /\ UNCHANGED fetched
    /\ UNCHANGED <<page, scOp, lastResponse, validatedOutputPath, scVersion, versionData, browser, downloadButton,
                   listening, clicked,
                   responses, downloadUrl>>

\* a caller that goes on to the catalog update whatever the download came to
AlwaysStore(kind) == "store"

\* where the method stands after the await of downloadAndVerify: a rejection
\* leaves the try block for the catch and the finally, a result goes on to the
\* catalog update
AfterFetch(kind) == IF kind = "thrown" THEN "finally" ELSE "store"

\* await this.downloader.downloadAndVerify(...) settles
ScFetch ==
    /\ scPc = "fetch"
    /\ LET record == IF scOp = "downloadVersion" THEN data.versions[versionData]
                     ELSE [checksum |-> Undefined, hashType |-> Undefined]
           expectedHash == OrUndefined(record.checksum)
           hashType == OrUndefined(record.hashType)
           body == ArtifactBytes(ReleaseOfUrl(fetched.url))
       IN \E o \in DownloadAndVerifyOutcomes(body, expectedHash, hashType) :
            /\ fetched' = [kind |-> o.kind, url |-> fetched.url, path |-> fetched.path,
                           error |-> o.error,
                           checksum |-> o.checksum]
            /\ scPc' = AfterFetch(o.kind)
            /\ IF o.kind = "thrown"
               THEN scOutcome' = OnError(scOp, o.error)
               ELSE UNCHANGED scOutcome
    /\ UNCHANGED <<page, scOp, lastResponse, validatedOutputPath, scVersion, versionData, browser, downloadButton,
                   listening, clicked,
                   responses, downloadUrl>>

\* an update that is made whatever the record holds
AlwaysUpdate(record) == TRUE

\* if (!versionData.checksum)
ChecksumWasEmpty(record) == ~Truthy(record.checksum)

\* downloadVersion after the download: the checksum is stored if the record had none
DvStore ==
    /\ scPc = "store"
    /\ scOp = "downloadVersion"
    /\ IF ChecksumWasEmpty(data.versions[versionData])
       THEN addOrUpdateVersion(scVersion, data.versions[versionData].hash,
                               fetched.checksum, Undefined)
       ELSE UNCHANGED <<data, file, lastCall>>
    /\ scOutcome' = [kind |-> "returned", value |-> Undefined]
    /\ scPc' = "finally"
    /\ UNCHANGED <<page, scOp, lastResponse, validatedOutputPath, scVersion, versionData, browser, downloadButton,
                   listening, clicked,
                   responses, downloadUrl, fetched>>

\* getVersionHash after the download: addOrUpdateVersion(version, result.checksum)
GvStore ==
    /\ scPc = "store"
    /\ scOp = "getVersionHash"
    /\ addOrUpdateVersion(scVersion, fetched.checksum, Undefined, Undefined)
    /\ scOutcome' = [kind |-> "returned", value |-> fetched.checksum]
    /\ scPc' = "finally"
    /\ UNCHANGED <<page, scOp, lastResponse, validatedOutputPath, scVersion, versionData, browser, downloadButton,
                   listening, clicked,
                   responses, downloadUrl, fetched>>

\* the finally block, then the method returns or throws
ScFinally ==
    /\ scPc = "finally"
    /\ browser' = FinallyBrowser(browser, scOutcome)
    /\ scPc' = "done"
    /\ UNCHANGED <<page, scOp, lastResponse, validatedOutputPath, scVersion, versionData, downloadButton, listening, clicked,
                   responses, downloadUrl, fetched, scOutcome>>

----------------------------------------------------------------------------
(* CLI (src/src/cli.ts) and main (src/src/main.ts) *)

SUCCESS == 0
ERROR == 1
NotExited == -1

INVALID_VERSION_FORMAT == <<"Version must be in format X.Y">>
GET_VERSION_FAILED == <<"Get version failed:">>
DOWNLOAD_FAILED == <<"Download failed:">>
FailedToGetHash == <<"Failed to get hash for version">>

NoOptions == [command |-> "none", version |-> Undefined, output |-> Undefined]

CliIdle ==
    /\ cliPc = "idle"
    /\ cliOptions = NoOptions
    /\ cliMessage = NoError
    /\ exitCode = NotExited

\* the values of --get-version and --d on the command line
CliVersions ==
    {Bare11, WithV(Bare118), Bare100, <<"1", ".", "2">>,
     <<"1", ".">>, <<"1", ".", "1", ".", "1">>, <<"l", "a", "t", "e", "s", "t">>}

\* the values of --output on the command line (Undefined: not given)
CliOutputs == {Undefined, MyEbZip}

\* process.exit(code), or the end of main when every handler has returned
Exit(code, message) ==
    /\ cliPc' = "exited"
    /\ exitCode' = code
    /\ cliMessage' = message

\* a validation that lets every identifier through
AnyVersionFormat(version) == TRUE

\* Validation.VERSION_PATTERN.test(version) in the handlers
ValidVersionFormat(version) == VersionPatternTest(version)

\* the two checks both handlers start with: the format, then hasVersion
HandlerRejects(version) == ~ValidVersionFormat(version) \/ ~hasVersion(version)

RejectionMessage(version) ==
    IF ~ValidVersionFormat(version) THEN INVALID_VERSION_FORMAT ELSE VersionNotFound

\* run() with --list: handleList prints the catalog and returns
CliList ==
    /\ cliPc = "idle"
    /\ cliOptions' = [NoOptions EXCEPT !.command = "list"]
    /\ Exit(SUCCESS, NoError)
    /\ UNCHANGED scraperVars

\* run() with --get-version: handleGetVersion up to the await of getVersionHash
CliGetVersion ==
    /\ cliPc = "idle"
    /\ scPc = "idle"
    /\ \E version \in CliVersions, output \in CliOutputs :
        /\ cliOptions' = [command |-> "getVersion", version |-> version, output |-> output]
        /\ IF HandlerRejects(version)
           THEN /\ Exit(ERROR, RejectionMessage(version))
                /\ UNCHANGED scraperVars
           ELSE /\ GetVersionHashCall(version)
                /\ cliPc' = "awaiting"
                /\ UNCHANGED <<cliMessage, exitCode>>

\* run() with --d: handleDownload up to the await of downloadVersion(version)
CliDownload ==
    /\ cliPc = "idle"
    /\ scPc = "idle"
    /\ \E version \in CliVersions, output \in CliOutputs :
        /\ cliOptions' = [command |-> "d", version |-> version, output |-> output]
        /\ IF HandlerRejects(version)
           THEN /\ Exit(ERROR, RejectionMessage(version))
                /\ UNCHANGED scraperVars
           ELSE /\ DownloadVersionCall(version, Undefined)
                /\ cliPc' = "awaiting"
                /\ UNCHANGED <<cliMessage, exitCode>>

\* a handler that exits with an error only when the method threw
ExitOnThrowOnly(outcome) == IF outcome.kind = "thrown" THEN ERROR ELSE SUCCESS

\* handleGetVersion after the await: if (hash) ... else exit(ERROR); catch: exit(ERROR)
GetVersionExit(outcome) ==
    IF outcome.kind = "returned" /\ outcome.value # Null /\ Truthy(outcome.value)
    THEN SUCCESS
    ELSE ERROR

\* handleDownload after the await: catch: exit(ERROR)
DownloadExit(outcome) == IF outcome.kind = "thrown" THEN ERROR ELSE SUCCESS

\* getVersionHash has settled
CliGetVersionSettled ==
    /\ cliPc = "awaiting"
    /\ cliOptions.command = "getVersion"
    /\ scPc = "done"
    /\ Exit(GetVersionExit(scOutcome),
            IF scOutcome.kind = "thrown" THEN GET_VERSION_FAILED
            ELSE IF GetVersionExit(scOutcome) = ERROR THEN FailedToGetHash
            ELSE NoError)
    /\ UNCHANGED <<cliOptions, scraperVars>>

\* downloadVersion has settled
CliDownloadSettled ==
    /\ cliPc = "awaiting"
    /\ cliOptions.command = "d"
    /\ scPc = "done"
    /\ Exit(DownloadExit(scOutcome),
            IF scOutcome.kind = "thrown" THEN DOWNLOAD_FAILED ELSE NoError)
    /\ UNCHANGED <<cliOptions, scraperVars>>

----------------------------------------------------------------------------
(* Scraper.scrapeVersionHash (src/src/scraper.ts) *)

HexChars == Digits \cup {"a", "b", "c", "d", "e", "f", "A", "B", "C", "D", "E", "F"}

\* Validation.HASH_PATTERN.test: /^[a-f0-9]+$/i
HashPatternTest(s) == s # << >> /\ \A i \in 1..Len(s) : s[i] \in HexChars

\* a check that takes any non-empty value
IsTruthyValue(value) == value # Null /\ Truthy(value)

\* value && value.length === Validation.HASH_LENGTH && Validation.HASH_PATTERN.test(value)
IsValidHash(value) ==
    /\ value # Null
    /\ Truthy(value)
    /\ Len(value) = Sha256Length
    /\ HashPatternTest(value)

CLICKED_COPY_BUTTON == <<"CLICKED_COPY_BUTTON">>
NotAHash == <<"n/a">>
\* hexadecimal but too short: an MD5 digest
ShortHex == Md5Hex(<<0>>)
\* of the right length but not hexadecimal
NonHex64 == Pad(<<"g">>, Sha256Length, "0")

\* the words of a dialog's textContent
LabelWord == <<"download:">>
CookieWord == <<"cookie">>
AcceptAllWord == <<"accept all">>

\* dialogText.match(/\b[a-f0-9]{64}\b/gi): the words that are 64 hexadecimal characters
TextHashMatches(text) ==
    SelectSeq(text, LAMBDA w : Len(w) = Sha256Length /\ HashPatternTest(w))

\* dialogText.includes('cookie') || dialogText.includes('accept all')
IsCookieText(text) ==
    \E i \in 1..Len(text) : ToLowerCase(text[i]) \in {CookieWord, AcceptAllWord}

\* the checksum dialogs a page may show: a calcite-dialog or another dialog
\* element, with or without the calcite copy and footer buttons, a
\* calcite-input, plain buttons (copy control, close control), plain inputs, a
\* digest in the text; copies is what a copy control writes to the clipboard
ChecksumDialogs ==
    [kind : {"checksum"},
     calcite : BOOLEAN,
     text : {<<LabelWord>>, <<LabelWord, HashA>>, <<ShortHex, NonHex64, HashA>>},
     calciteButtons : {<< >>, <<"copy", "footer-end">>},
     calciteInput : {Null, NotAHash, ShortHex, HashA},
     buttons : {<<"close">>, <<"copy">>},
     inputs : {<< >>, <<HashB>>, <<NonHex64, HashB>>},
     copies : {NotAHash, NonHex64, HashA}]

\* the cookie-consent dialogs: a calcite-dialog with reject and accept
\* controls, another dialog element with an accept control only, one with no
\* control the handler knows
ConsentDialogs ==
    {[kind |-> "consent", calcite |-> TRUE, text |-> <<CookieWord>>,
      calciteButtons |-> <<"other">>, calciteInput |-> Null,
      buttons |-> <<"reject", "accept">>, inputs |-> << >>, copies |-> NotAHash],
     [kind |-> "consent", calcite |-> FALSE, text |-> <<AcceptAllWord>>,
      calciteButtons |-> << >>, calciteInput |-> Null,
      buttons |-> <<"accept">>, inputs |-> << >>, copies |-> NotAHash],
     [kind |-> "consent", calcite |-> FALSE, text |-> <<CookieWord>>,
      calciteButtons |-> << >>, calciteInput |-> Null,
      buttons |-> << >>, inputs |-> << >>, copies |-> NotAHash]}

\* the documents after the click: no dialog, the checksum dialog, a consent
\* dialog before the checksum dialog
DialogLists ==
    {<< >>} \cup {<<c>> : c \in ChecksumDialogs}
            \cup {<<k, c>> : k \in ConsentDialogs, c \in ChecksumDialogs}

ScrapeEnvs ==
    [checksumsButton : BOOLEAN, clipboardReadable : BOOLEAN, validationInPage : BOOLEAN]

NoEnv == [checksumsButton |-> FALSE, clipboardReadable |-> FALSE, validationInPage |-> FALSE]

ScrapeIdle ==
    /\ shPc = "idle"
    /\ shEnv = NoEnv
    /\ dialogs = << >>
    /\ closed = {}
    /\ clipboard = EmptyString
    /\ extractedHash = Null
    /\ shResult = Running
    /\ shTrace = << >>

Has(buttons, what) == \E i \in 1..Len(buttons) : buttons[i] = what

\* document.querySelector('calcite-dialog'): the first calcite-dialog, 0 if none
FirstCalciteDialog(ds, gone) ==
    IF \E i \in 1..Len(ds) : i \notin gone /\ ds[i].calcite
    THEN CHOOSE i \in 1..Len(ds) :
            /\ i \notin gone /\ ds[i].calcite
            /\ \A j \in 1..(i - 1) : j \in gone \/ ~ds[j].calcite
    ELSE 0

\* the loop over dialogSelectors: 'calcite-dialog' first, then the selectors of
\* other dialog elements; 0 if none matches
FirstDialog(ds, gone) ==
    IF FirstCalciteDialog(ds, gone) # 0 THEN FirstCalciteDialog(ds, gone)
    ELSE IF \E i \in 1..Len(ds) : i \notin gone
    THEN CHOOSE i \in 1..Len(ds) : i \notin gone /\ \A j \in 1..(i - 1) : j \in gone
    ELSE 0

\* dialog.querySelectorAll('input'): the input of the calcite-input, then the others
AllInputs(dialog) ==
    (IF dialog.calciteInput # Null THEN <<dialog.calciteInput>> ELSE << >>) \o dialog.inputs

Event(ev, what, on) == [ev |-> ev, what |-> what, on |-> on]

Returns(value) ==
    /\ shPc' = "done"
    /\ shResult' = [kind |-> "returned", value |-> value]

PageOperationFailed == <<"page operation failed">>
ReferenceError == <<"ReferenceError: Validation is not defined">>

\* a catch block that throws the error again
Rethrow(error) == [kind |-> "thrown", error |-> error]

\* the outer catch: the error is logged and null is returned
OuterCatch(error) == [kind |-> "returned", value |-> Null]

\* an error raised inside the outer try block
Raises(error) ==
    /\ shPc' = "done"
    /\ shResult' = OuterCatch(error)

\* scrapeVersionHash(page, version): the search for the checksums button and the click
ShCall ==
    /\ shPc = "idle"
    /\ IF ~shEnv.checksumsButton
       THEN Returns(Null)
       ELSE /\ shPc' = "calcite"
            /\ UNCHANGED shResult
    /\ UNCHANGED <<shEnv, dialogs, closed, clipboard, extractedHash, shTrace>>

\* the first try block: the copy button of the calcite-dialog is clicked, the
\* value of its calcite-input is read, then the clipboard
ShCalciteTiers ==
    /\ shPc = "calcite"
    /\ LET d == FirstCalciteDialog(dialogs, closed)
       IN IF d = 0 \/ dialogs[d].calciteButtons = << >>
          THEN /\ shPc' = "cookie"
               /\ UNCHANGED <<closed, clipboard, shResult, shTrace>>
          ELSE LET dialog == dialogs[d]
                   copied == IF Has(dialog.calciteButtons, "copy") THEN dialog.copies
                             ELSE clipboard
                   hashFromInput == dialog.calciteInput
                   footer == Has(dialog.calciteButtons, "footer-end")
               IN /\ clipboard' = copied
                  /\ IF IsValidHash(hashFromInput)
                     THEN /\ closed' = IF footer THEN closed \cup {d} ELSE closed
                          /\ shTrace' = shTrace \o <<Event("tier", "input", dialog.kind)>>
                                  \o (IF footer
                                      THEN <<Event("close", "footer-end", dialog.kind)>>
                                      ELSE << >>)
                          /\ Returns(hashFromInput)
                     ELSE /\ shTrace' = shTrace \o <<Event("tier", "input", dialog.kind),
                                                     Event("tier", "clipboard", dialog.kind)>>
                          /\ UNCHANGED closed
                          /\ IF shEnv.clipboardReadable /\ IsValidHash(copied)
                             THEN Returns(copied)
                             ELSE /\ shPc' = "cookie"
                                  /\ UNCHANGED shResult
    /\ UNCHANGED <<shEnv, dialogs, extractedHash>>

\* the control of a cookie dialog the handler clicks: a reject control, else an
\* accept control, else none
CookieControl(buttons) ==
    IF Has(buttons, "reject") THEN "reject"
    ELSE IF Has(buttons, "accept") THEN "accept"
    ELSE "none"

\* the cookie modal check
ShCookie ==
    /\ shPc = "cookie"
    /\ LET d == FirstDialog(dialogs, closed)
       IN IF d # 0 /\ IsCookieText(dialogs[d].text) /\ CookieControl(dialogs[d].buttons) # "none"
          THEN /\ closed' = closed \cup {d}
               /\ shTrace' = shTrace \o <<Event("dismiss", CookieControl(dialogs[d].buttons),
                                                dialogs[d].kind)>>
          ELSE UNCHANGED <<closed, shTrace>>
    /\ shPc' = "extract"
    /\ UNCHANGED <<shEnv, dialogs, clipboard, extractedHash, shResult>>

\* the index of the first input holding a valid hash, 0 if none
FirstValidInput(inputs) ==
    IF \E i \in 1..Len(inputs) : IsValidHash(inputs[i])
    THEN CHOOSE i \in 1..Len(inputs) :
            IsValidHash(inputs[i]) /\ \A j \in 1..(i - 1) : ~IsValidHash(inputs[j])
    ELSE 0

\* copyButtons.length > 0 in the extraction
HasCopyControl(buttons) == Has(buttons, "copy")

\* the extraction evaluated in the page: a copy control is clicked if there is
\* one; else the inputs are scanned, then the text. The scans name
\* Validation.HASH_LENGTH inside the function evaluated in the page: where the
\* page does not resolve that name the evaluation raises
ShExtract ==
    /\ shPc = "extract"
    /\ LET d == FirstDialog(dialogs, closed)
       IN IF d = 0
          THEN /\ extractedHash' = Null
               /\ shPc' = "close"
               /\ UNCHANGED <<clipboard, shResult, shTrace>>
          ELSE LET dialog == dialogs[d]
                   inputs == AllInputs(dialog)
                   found == FirstValidInput(inputs)
                   matches == TextHashMatches(dialog.text)
                   truthyInput == \E i \in 1..Len(inputs) : Truthy(inputs[i])
               IN IF HasCopyControl(dialog.buttons)
                  THEN /\ clipboard' = dialog.copies
                       /\ extractedHash' = CLICKED_COPY_BUTTON
                       /\ shPc' = "clipboard"
                       /\ shTrace' = shTrace \o <<Event("tier", "clipboard", dialog.kind)>>
                       /\ UNCHANGED shResult
                  ELSE IF truthyInput /\ ~shEnv.validationInPage
                  THEN /\ Raises(ReferenceError)
                       /\ shTrace' = shTrace \o <<Event("tier", "input", dialog.kind),
                                                  Event("error", "input", dialog.kind)>>
                       /\ UNCHANGED <<clipboard, extractedHash>>
                  ELSE IF found # 0
                  THEN /\ extractedHash' = inputs[found]
                       /\ shPc' = "close"
                       /\ shTrace' = shTrace \o <<Event("tier", "input", dialog.kind)>>
                       /\ UNCHANGED <<clipboard, shResult>>
                  ELSE IF ~shEnv.validationInPage
                  THEN /\ Raises(ReferenceError)
                       /\ shTrace' = shTrace \o <<Event("tier", "input", dialog.kind),
                                                  Event("tier", "text", dialog.kind),
                                                  Event("error", "text", dialog.kind)>>
                       /\ UNCHANGED <<clipboard, extractedHash>>
                  ELSE /\ extractedHash' = IF matches # << >> THEN matches[1] ELSE Null
                       /\ shPc' = "close"
                       /\ shTrace' = shTrace \o <<Event("tier", "input", dialog.kind),
                                                  Event("tier", "text", dialog.kind)>>
                       /\ UNCHANGED <<clipboard, shResult>>
    /\ UNCHANGED <<shEnv, dialogs, closed>>

\* if (extractedHash === 'CLICKED_COPY_BUTTON'): the clipboard is read
ShReadClipboard ==
    /\ shPc = "clipboard"
    /\ extractedHash' = IF shEnv.clipboardReadable /\ IsValidHash(clipboard)
                        THEN clipboard
                        ELSE Null
    /\ shPc' = "close"
    /\ UNCHANGED <<shEnv, dialogs, closed, clipboard, shResult, shTrace>>

\* the dialog is closed with its close button, or Escape is sent; then
\* return extractedHash
ShClose ==
    /\ shPc = "close"
    /\ LET d == FirstDialog(dialogs, closed)
       IN IF d = 0
          THEN UNCHANGED <<closed, shTrace>>
          ELSE IF Has(dialogs[d].buttons, "close")
          THEN /\ closed' = closed \cup {d}
               /\ shTrace' = shTrace \o <<Event("close", "button", dialogs[d].kind)>>
          ELSE /\ closed' = closed \cup {d}
               /\ shTrace' = shTrace \o <<Event("close", "escape", dialogs[d].kind)>>
    /\ Returns(extractedHash)
    /\ UNCHANGED <<shEnv, dialogs, clipboard, extractedHash>>

\* a page operation raises: the outer catch returns null
ShPageError ==
    /\ shPc \in {"calcite", "cookie", "extract", "clipboard", "close"}
    /\ Raises(PageOperationFailed)
    /\ shTrace' = shTrace \o <<Event("error", "page", "none")>>
    /\ UNCHANGED <<shEnv, dialogs, closed, clipboard, extractedHash>>

----------------------------------------------------------------------------
(* VersionTester (src/test-all-versions.ts) *)

TestVersions == {Bare11, Bare118}

\* what loadVersions can return
VersionLists == SeqsUpTo(TestVersions, MaxVersions)

TesterIdle ==
    /\ vtPc = "idle"
    /\ vtVersions = << >>
    /\ vtIndex = 0
    /\ vtSettled = {}
    /\ vtFired = {}
    /\ vtClosing = {}
    /\ results = << >>
    /\ failedVersions = << >>

FileNotFound == <<"Download completed but file not found">>
ProcessExited == <<"Process exited with code">>
SpawnFailed == <<"spawn ENOENT">>
DownloadTimeout == <<"Download timeout (5 minutes)">>

\* the TestResult objects handed to resolve
Passed(version) == [version |-> version, success |-> TRUE, error |-> NoError]
Failed(version, error) == [version |-> version, success |-> FALSE, error |-> error]

\* the exit codes the close event reports (-1: ended by a signal, code null)
ChildCodes == {0, 1, -1}

\* run(): loadVersions, then the first testVersion, or the reports at once
VtRun ==
    /\ vtPc = "idle"
    /\ \E versions \in VersionLists :
        /\ vtVersions' = versions
        /\ IF versions = << >>
           THEN vtPc' = "done" /\ vtIndex' = 0
           ELSE vtPc' = "testing" /\ vtIndex' = 1
    /\ UNCHANGED <<vtSettled, vtFired, vtClosing, results, failedVersions>>

\* a promise that every call of resolve settles anew
ResolveAnew(j, settled) == TRUE

\* the promise of testVersion number j is pending: resolve has not been called
ResolvePending(j, settled) == j \notin settled

\* resolve(result) in a handler of child j: the first call settles the promise
\* and the loop of run() goes on: the result is pushed, a failure is noted, the
\* next version is tested or the reports are written; a later call does nothing
Resolve(j, result) ==
    IF ResolvePending(j, vtSettled)
    THEN /\ vtSettled' = vtSettled \cup {j}
         /\ results' = Append(results, result)
         /\ failedVersions' = IF ~result.success
                              THEN Append(failedVersions, vtVersions[j])
                              ELSE failedVersions
         /\ IF j < Len(vtVersions)
            THEN vtIndex' = j + 1 /\ UNCHANGED vtPc
            ELSE vtPc' = "done" /\ UNCHANGED vtIndex
    ELSE UNCHANGED <<vtSettled, results, failedVersions, vtIndex, vtPc>>

\* child.on('close') of a child that was spawned: the handler starts and awaits fs
VtClose ==
    /\ vtPc # "idle"
    /\ \E j \in 1..vtIndex, code \in ChildCodes :
        /\ <<j, "close">> \notin vtFired
        /\ vtFired' = vtFired \cup {<<j, "close">>}
        /\ vtClosing' = vtClosing \cup {[index |-> j, code |-> code]}
    /\ UNCHANGED <<vtPc, vtVersions, vtIndex, vtSettled, results, failedVersions>>

\* the close handler after its await: fs.stat and fs.unlink for code 0,
\* fs.unlink for any other code, then resolve
VtCloseDone ==
    /\ \E c \in vtClosing :
        /\ vtClosing' = vtClosing \ {c}
        /\ IF c.code = 0
           THEN \E statOk \in BOOLEAN :
                   Resolve(c.index, IF statOk THEN Passed(vtVersions[c.index])
                                    ELSE Failed(vtVersions[c.index], FileNotFound))
           ELSE Resolve(c.index, Failed(vtVersions[c.index], ProcessExited))
    /\ UNCHANGED <<vtVersions, vtFired>>

\* child.on('error')
VtError ==
    /\ vtPc # "idle"
    /\ \E j \in 1..vtIndex :
        /\ <<j, "error">> \notin vtFired
        /\ vtFired' = vtFired \cup {<<j, "error">>}
        /\ Resolve(j, Failed(vtVersions[j], SpawnFailed))
    /\ UNCHANGED <<vtVersions, vtClosing>>

\* the timer of testVersion fires: child.killed is false, since nothing else
\* kills the child; child.kill('SIGTERM'), then resolve
VtTimeout ==
    /\ vtPc # "idle"
    /\ \E j \in 1..vtIndex :
        /\ <<j, "timeout">> \notin vtFired
        /\ vtFired' = vtFired \cup {<<j, "timeout">>}
        /\ Resolve(j, Failed(vtVersions[j], DownloadTimeout))
    /\ UNCHANGED <<vtVersions, vtClosing>>

----------------------------------------------------------------------------
(* Specifications *)

vars == <<catalogVars, downloadVars, scraperVars, cliVars, scrapeVars, testerVars>>

\* the vendor page, fixed while no Scraper method runs
PageIdle == page = << >> /\ ScraperIdle

(* the catalog on its own *)

InitCatalog ==
    /\ file \in InitialFiles
    /\ data = LoadVersionsData(file)
    /\ clock = 1
    /\ diskWritable = TRUE
    /\ lastCall = [op |-> "constructor", version |-> Undefined]
    /\ DownloadIdle
    /\ CliIdle
    /\ TesterIdle
    /\ ScrapeIdle
    /\ PageIdle

NextCatalog ==
    \/ (CallAddOrUpdateVersion /\ UNCHANGED <<downloadVars, scraperVars, cliVars, scrapeVars, testerVars>>)
    \/ (CallUpdateLastScraped /\ UNCHANGED <<downloadVars, scraperVars, cliVars, scrapeVars, testerVars>>)
    \/ (CallSetVersions /\ UNCHANGED <<downloadVars, scraperVars, cliVars, scrapeVars, testerVars>>)
    \/ (CatalogTick /\ UNCHANGED <<downloadVars, scraperVars, cliVars, scrapeVars, testerVars>>)

SpecCatalog == InitCatalog /\ [][NextCatalog]_vars

(* addOrUpdateVersion alone, from the empty catalog *)

InitUpsert ==
    /\ file = NoFile
    /\ data = LoadVersionsData(file)
    /\ clock = 1
    /\ diskWritable = TRUE
    /\ lastCall = [op |-> "constructor", version |-> Undefined]
    /\ DownloadIdle
    /\ CliIdle
    /\ TesterIdle
    /\ ScrapeIdle
    /\ PageIdle

NextUpsert ==
    \/ (CallAddOrUpdateVersion /\ UNCHANGED <<downloadVars, scraperVars, cliVars, scrapeVars, testerVars>>)
    \/ (CatalogTick /\ UNCHANGED <<downloadVars, scraperVars, cliVars, scrapeVars, testerVars>>)

SpecUpsert == InitUpsert /\ [][NextUpsert]_vars

(* the catalog on a disk that may refuse the write of versions-list.json *)
(* (EACCES, EROFS, ENOSPC): fs.writeFileSync then throws on every call     *)

InitCatalogFault ==
    /\ file \in InitialFiles
    /\ data = LoadVersionsData(file)
    /\ clock = 1
    /\ diskWritable \in BOOLEAN
    /\ lastCall = [op |-> "constructor", version |-> Undefined]
    /\ DownloadIdle
    /\ CliIdle
    /\ TesterIdle
    /\ ScrapeIdle
    /\ PageIdle

NextCatalogFault ==
    \/ (CallAddOrUpdateVersion /\ UNCHANGED <<downloadVars, scraperVars, cliVars, scrapeVars, testerVars>>)
    \/ (CallUpdateLastScraped /\ UNCHANGED <<downloadVars, scraperVars, cliVars, scrapeVars, testerVars>>)
    \/ (CallSetVersions /\ UNCHANGED <<downloadVars, scraperVars, cliVars, scrapeVars, testerVars>>)

SpecCatalogFault == InitCatalogFault /\ [][NextCatalogFault]_vars

(* one call of Downloader.downloadAndVerify *)

InitDownload ==
    /\ file = NoFile
    /\ data = LoadVersionsData(file)
    /\ clock = 1
    /\ diskWritable = TRUE
    /\ lastCall = [op |-> "constructor", version |-> Undefined]
    /\ DownloadIdle
    /\ CliIdle
    /\ TesterIdle
    /\ ScrapeIdle
    /\ PageIdle

NextDownload ==
    \/ (DlCall /\ UNCHANGED <<catalogVars, scraperVars, cliVars, scrapeVars, testerVars>>)
    \/ (DlResponseBadStatus /\ UNCHANGED <<catalogVars, scraperVars, cliVars, scrapeVars, testerVars>>)
    \/ (DlResponseOk /\ UNCHANGED <<catalogVars, scraperVars, cliVars, scrapeVars, testerVars>>)
    \/ (DlData /\ UNCHANGED <<catalogVars, scraperVars, cliVars, scrapeVars, testerVars>>)
    \/ (DlFileOpened /\ UNCHANGED <<catalogVars, scraperVars, cliVars, scrapeVars, testerVars>>)
    \/ (DlFlush /\ UNCHANGED <<catalogVars, scraperVars, cliVars, scrapeVars, testerVars>>)
    \/ (DlEnd /\ UNCHANGED <<catalogVars, scraperVars, cliVars, scrapeVars, testerVars>>)
    \/ (DlRequestError /\ UNCHANGED <<catalogVars, scraperVars, cliVars, scrapeVars, testerVars>>)
    \/ (DlTimeout /\ UNCHANGED <<catalogVars, scraperVars, cliVars, scrapeVars, testerVars>>)
    \/ (DlStat /\ UNCHANGED <<catalogVars, scraperVars, cliVars, scrapeVars, testerVars>>)
    \/ (DlVerify /\ UNCHANGED <<catalogVars, scraperVars, cliVars, scrapeVars, testerVars>>)

SpecDownload == InitDownload /\ [][NextDownload]_vars

(* one call of Downloader.downloadFile, with the request timer that fires *)
(* when the request is still waiting                                      *)

NextDownloadFile ==
    \/ (DlCallFile /\ UNCHANGED <<catalogVars, scraperVars, cliVars, scrapeVars, testerVars>>)
    \/ (DlResponseBadStatus /\ UNCHANGED <<catalogVars, scraperVars, cliVars, scrapeVars, testerVars>>)
    \/ (DlResponseOk /\ UNCHANGED <<catalogVars, scraperVars, cliVars, scrapeVars, testerVars>>)
    \/ (DlData /\ UNCHANGED <<catalogVars, scraperVars, cliVars, scrapeVars, testerVars>>)
    \/ (DlFileOpened /\ UNCHANGED <<catalogVars, scraperVars, cliVars, scrapeVars, testerVars>>)
    \/ (DlFlush /\ UNCHANGED <<catalogVars, scraperVars, cliVars, scrapeVars, testerVars>>)
    \/ (DlEnd /\ UNCHANGED <<catalogVars, scraperVars, cliVars, scrapeVars, testerVars>>)
    \/ (DlRequestError /\ UNCHANGED <<catalogVars, scraperVars, cliVars, scrapeVars, testerVars>>)
    \/ (DlTimeout /\ UNCHANGED <<catalogVars, scraperVars, cliVars, scrapeVars, testerVars>>)

SpecDownloadFile ==
    /\ InitDownload
    /\ [][NextDownloadFile]_vars
    /\ WF_vars(DlTimeout /\ UNCHANGED <<catalogVars, scraperVars, cliVars, scrapeVars,
                                           testerVars>>)

(* one call of Downloader.downloadFile to a path that may hold a file *)

InitDownloadOver ==
    /\ file = NoFile
    /\ data = LoadVersionsData(file)
    /\ clock = 1
    /\ diskWritable = TRUE
    /\ lastCall = [op |-> "constructor", version |-> Undefined]
    /\ dlPc = "idle"
    /\ dlArgs = [expectedHash |-> Undefined, hashType |-> Undefined]
    /\ dlServer = [status |-> SUCCESS_STATUS, encoding |-> "none", body |-> << >>,
                   advertised |-> FALSE]
    /\ stream = << >>
    /\ totalBytes = 0
    /\ bytesDownloaded = 0
    /\ progress = << >>
    /\ pending = << >>
    /\ disk \in {NotCreated, OldFile}
    /\ fileSize = 0
    /\ dlChecksum = Undefined
    /\ dlResult = NoResult
    /\ dlError = NoError
    /\ dlEvents = {}
    /\ CliIdle
    /\ TesterIdle
    /\ ScrapeIdle
    /\ PageIdle

SpecDownloadOver == InitDownloadOver /\ [][NextDownloadFile]_vars

(* one call of a Scraper method on a catalog read from disk *)

\* the versions-list.json the tool ships with: a record with its checksum, a
\* record with a checksum that is not the artifact's, records with none
ShippedFiles ==
    {[versions |-> <<FileRecord(Bare118, sum118), FileRecord(Bare11, EmptyString),
                     FileRecord(Bare100, EmptyString)>>,
      lastScraped |-> 0] :
        sum118 \in {Sha256Hex(ArtifactBytes(Bare118)), Sha256Hex(<<1, 1, 1>>)}}

InitScraper ==
    /\ file \in ShippedFiles
    /\ data = LoadVersionsData(file)
    /\ clock = 1
    /\ diskWritable = TRUE
    /\ lastCall = [op |-> "constructor", version |-> Undefined]
    /\ DownloadIdle
    /\ CliIdle
    /\ TesterIdle
    /\ ScrapeIdle
    /\ page \in Pages
    /\ ScraperIdle

NextScraper ==
    \/ (DvCall /\ UNCHANGED <<catalogVars, downloadVars, cliVars, scrapeVars, testerVars>>)
    \/ (GvCall /\ UNCHANGED <<catalogVars, downloadVars, cliVars, scrapeVars, testerVars>>)
    \/ (ScLaunch /\ UNCHANGED <<catalogVars, downloadVars, cliVars, scrapeVars, testerVars>>)
    \/ (ScNavigate /\ UNCHANGED <<catalogVars, downloadVars, cliVars, scrapeVars, testerVars>>)
    \/ (DvFind /\ UNCHANGED <<catalogVars, downloadVars, cliVars, scrapeVars, testerVars>>)
    \/ (GvFind /\ UNCHANGED <<catalogVars, downloadVars, cliVars, scrapeVars, testerVars>>)
    \/ (ScClick /\ UNCHANGED <<catalogVars, downloadVars, cliVars, scrapeVars, testerVars>>)
    \/ (ScResponse /\ UNCHANGED <<catalogVars, downloadVars, cliVars, scrapeVars, testerVars>>)
    \/ (ScWindowElapsed /\ UNCHANGED <<catalogVars, downloadVars, cliVars, scrapeVars, testerVars>>)
    \/ (ScFetch /\ UNCHANGED <<catalogVars, downloadVars, cliVars, scrapeVars, testerVars>>)
    \/ (DvStore /\ UNCHANGED <<clock, diskWritable, downloadVars, cliVars, scrapeVars, testerVars>>)
    \/ (GvStore /\ UNCHANGED <<clock, diskWritable, downloadVars, cliVars, scrapeVars, testerVars>>)
    \/ (ScFinally /\ UNCHANGED <<catalogVars, downloadVars, cliVars, scrapeVars, testerVars>>)

SpecScraper == InitScraper /\ [][NextScraper]_vars

(* one invocation of the command-line tool *)

NextCli ==
    \/ (CliList /\ UNCHANGED <<catalogVars, downloadVars, scrapeVars, testerVars>>)
    \/ (CliGetVersion /\ UNCHANGED <<catalogVars, downloadVars, scrapeVars, testerVars>>)
    \/ (CliDownload /\ UNCHANGED <<catalogVars, downloadVars, scrapeVars, testerVars>>)
    \/ (ScLaunch /\ UNCHANGED <<catalogVars, downloadVars, cliVars, scrapeVars, testerVars>>)
    \/ (ScNavigate /\ UNCHANGED <<catalogVars, downloadVars, cliVars, scrapeVars, testerVars>>)
    \/ (DvFind /\ UNCHANGED <<catalogVars, downloadVars, cliVars, scrapeVars, testerVars>>)
    \/ (GvFind /\ UNCHANGED <<catalogVars, downloadVars, cliVars, scrapeVars, testerVars>>)
    \/ (ScClick /\ UNCHANGED <<catalogVars, downloadVars, cliVars, scrapeVars, testerVars>>)
    \/ (ScResponse /\ UNCHANGED <<catalogVars, downloadVars, cliVars, scrapeVars, testerVars>>)
    \/ (ScWindowElapsed /\ UNCHANGED <<catalogVars, downloadVars, cliVars, scrapeVars, testerVars>>)
    \/ (ScFetch /\ UNCHANGED <<catalogVars, downloadVars, cliVars, scrapeVars, testerVars>>)
    \/ (DvStore /\ UNCHANGED <<clock, diskWritable, downloadVars, cliVars, scrapeVars, testerVars>>)
    \/ (GvStore /\ UNCHANGED <<clock, diskWritable, downloadVars, cliVars, scrapeVars, testerVars>>)
    \/ (ScFinally /\ UNCHANGED <<catalogVars, downloadVars, cliVars, scrapeVars, testerVars>>)
    \/ (CliGetVersionSettled /\ UNCHANGED <<catalogVars, downloadVars, scrapeVars, testerVars>>)
    \/ (CliDownloadSettled /\ UNCHANGED <<catalogVars, downloadVars, scrapeVars, testerVars>>)

SpecCli == InitScraper /\ [][NextCli]_vars

(* one call of scrapeVersionHash on a page *)

InitScrapeHash ==
    /\ file = NoFile
    /\ data = LoadVersionsData(file)
    /\ clock = 1
    /\ diskWritable = TRUE
    /\ lastCall = [op |-> "constructor", version |-> Undefined]
    /\ DownloadIdle
    /\ CliIdle
    /\ TesterIdle
    /\ PageIdle
    /\ shPc = "idle"
    /\ shEnv \in ScrapeEnvs
    /\ dialogs \in DialogLists
    /\ closed = {}
    /\ clipboard \in {EmptyString, HashB}
    /\ extractedHash = Null
    /\ shResult = Running
    /\ shTrace = << >>

NextScrapeHash ==
    \/ (ShCall /\ UNCHANGED <<catalogVars, downloadVars, scraperVars, cliVars, testerVars>>)
    \/ (ShCalciteTiers /\ UNCHANGED <<catalogVars, downloadVars, scraperVars, cliVars, testerVars>>)
    \/ (ShCookie /\ UNCHANGED <<catalogVars, downloadVars, scraperVars, cliVars, testerVars>>)
    \/ (ShExtract /\ UNCHANGED <<catalogVars, downloadVars, scraperVars, cliVars, testerVars>>)
    \/ (ShReadClipboard /\ UNCHANGED <<catalogVars, downloadVars, scraperVars, cliVars, testerVars>>)
    \/ (ShClose /\ UNCHANGED <<catalogVars, downloadVars, scraperVars, cliVars, testerVars>>)
    \/ (ShPageError /\ UNCHANGED <<catalogVars, downloadVars, scraperVars, cliVars, testerVars>>)

SpecScrapeHash == InitScrapeHash /\ [][NextScrapeHash]_vars

(* one run of the batch harness *)

InitTester ==
    /\ file = NoFile
    /\ data = LoadVersionsData(file)
    /\ clock = 1
    /\ diskWritable = TRUE
    /\ lastCall = [op |-> "constructor", version |-> Undefined]
    /\ DownloadIdle
    /\ CliIdle
    /\ ScrapeIdle
    /\ PageIdle
    /\ TesterIdle

NextTester ==
    \/ (VtRun /\ UNCHANGED <<catalogVars, downloadVars, scraperVars, cliVars, scrapeVars>>)
    \/ (VtClose /\ UNCHANGED <<catalogVars, downloadVars, scraperVars, cliVars, scrapeVars>>)
    \/ (VtCloseDone /\ UNCHANGED <<catalogVars, downloadVars, scraperVars, cliVars, scrapeVars>>)
    \/ (VtError /\ UNCHANGED <<catalogVars, downloadVars, scraperVars, cliVars, scrapeVars>>)
    \/ (VtTimeout /\ UNCHANGED <<catalogVars, downloadVars, scraperVars, cliVars, scrapeVars>>)

SpecTester == InitTester /\ [][NextTester]_vars

----------------------------------------------------------------------------
(* Claims about the catalog *)

\* C11: after every mutating call of VersionManager (addOrUpdateVersion,
\* updateLastScraped, setVersions) has returned, the content of
\* versions-list.json equals the in-memory catalog, also when the write failed
C11_FileEqualsMemory ==
    lastCall.op \in {"addOrUpdateVersion", "updateLastScraped", "setVersions"}
        => file = data

BareCatalogIds == {id \in CatalogIds : ~StartsWith(id, <<"v">>)}

\* C8: for every catalog state and every two identifiers that differ only by
\* one leading "v", getVersion returns the same record (or undefined) for both.
C8_LookupIgnoresPrefix ==
    \A id \in BareCatalogIds :
        GetVersionIndex(data.versions, id) = GetVersionIndex(data.versions, WithV(id))

\* C9: after any sequence of addOrUpdateVersion calls from the empty catalog,
\* no two records have the same identifier, and no two records have the bare
\* and the "v"-prefixed identifier of the same version.
C9_NoDuplicateOrAliasRecords ==
    \A i, j \in 1..Len(data.versions) :
        i # j =>
            /\ data.versions[i].version # data.versions[j].version
            /\ data.versions[i].version # WithV(data.versions[j].version)

\* an update through the alias of a stored identifier, with a second version stored
C9_Witness ==
    /\ lastCall = [op |-> "addOrUpdateVersion", version |-> WithV(Bare118)]
    /\ Len(data.versions) = 2
    /\ \E i \in 1..2 : data.versions[i].version = Bare118 /\ data.versions[i].lastUpdated = 2

\* C10: every catalog mutation updates the catalog-wide timestamp: after
\* addOrUpdateVersion returns, lastScraped is the time of that call, which is
\* the lastUpdated it gave the record.
C10_UpsertUpdatesLastScraped ==
    lastCall.op = "addOrUpdateVersion" =>
        LET i == GetVersionIndex(data.versions, lastCall.version)
        IN i # 0 /\ data.lastScraped = data.versions[i].lastUpdated

----------------------------------------------------------------------------
(* Claims about the Downloader *)

\* C1: whenever downloadAndVerify has computed the digest of the file and a
\* non-empty expectedHash differs from it (letter case apart), the call has
\* thrown the hash-verification error and returned no DownloadResult; one
\* differing character is enough.
C1_MismatchAlwaysThrows ==
    (/\ dlChecksum # Undefined
     /\ Truthy(dlArgs.expectedHash)
     /\ ToLowerCase(dlArgs.expectedHash) # ToLowerCase(dlChecksum))
    => (dlPc = "thrown" /\ dlError = HashVerificationFailed /\ dlResult = NoResult)

\* the whole file was digested and expectedHash differs from it in one character
C1_Witness ==
    /\ dlPc = "thrown"
    /\ dlError = HashVerificationFailed
    /\ dlServer.body # << >>
    /\ disk = dlServer.body
    /\ dlArgs.expectedHash = FlipLast(dlChecksum)

\* C2: downloadFile resolves only after every decoded byte of the response is
\* in the destination file, and downloadAndVerify reads the size and computes
\* the digest of the complete file.
C2_ResolvesAfterDrain ==
    /\ dlPc = "resolved" => pending = << >> /\ Written(disk) = dlServer.body
    /\ dlPc \in {"statted", "returned"} => fileSize = Len(dlServer.body)
    /\ dlChecksum # Undefined =>
          dlChecksum = Checksum(dlArgs.expectedHash, dlArgs.hashType, dlServer.body)

\* a is a prefix of b
IsPrefixOf(a, b) == Len(a) <= Len(b) /\ SubSeq(b, 1, Len(a)) = a

\* C12: the digest returned by downloadAndVerify is the digest of the decoded
\* content S the server holds, and the size returned is the length of S, for
\* every content-encoding (none, gzip, deflate, br); never those of the wire bytes
C12_DigestOfDecodedContent ==
    dlPc = "returned" =>
        /\ dlResult.checksum = Checksum(dlArgs.expectedHash, dlArgs.hashType, dlServer.body)
        /\ dlResult.fileSize = Len(dlServer.body)

\* C13: when a transfer whose total size was advertised has succeeded, the last
\* value handed to the progress callback is complete: bytesDownloaded equals
\* totalBytes and the percentage is 100, also for a content-encoded response
C13_LastProgressIsComplete ==
    (dlPc \in {"resolved", "statted", "returned"} /\ totalBytes > 0 /\ progress # << >>) =>
        LET last == progress[Len(progress)]
        IN /\ last.bytesDownloaded = last.totalBytes
           /\ last.percentage.num = PERCENTAGE_MULTIPLIER * last.percentage.den

\* C14: within one transfer the bytesDownloaded and the percentage handed to
\* successive progress callbacks never decrease
C14_ProgressNonDecreasing ==
    \A i \in 1..Len(progress) : \A j \in i..Len(progress) :
        /\ progress[i].bytesDownloaded <= progress[j].bytesDownloaded
        /\ progress[i].percentage.num * progress[j].percentage.den
              <= progress[j].percentage.num * progress[i].percentage.den

\* two callbacks have run, the second with more bytes than the first
C14_Witness ==
    /\ Len(progress) >= 2
    /\ progress[1].bytesDownloaded < progress[2].bytesDownloaded

\* C15: an expectedHash that equals the computed digest up to letter case passes
\* the verification: downloadAndVerify returns a DownloadResult with that digest
C15_CaseInsensitiveMatchReturns ==
    (/\ dlChecksum # Undefined
     /\ Truthy(dlArgs.expectedHash)
     /\ ToLowerCase(dlArgs.expectedHash) = ToLowerCase(dlChecksum))
    => (dlPc = "returned" /\ dlError = NoError /\ dlResult.checksum = dlChecksum)

\* an upper-case expected digest, different from the computed one as a string,
\* was accepted
C15_Witness ==
    /\ dlPc = "returned"
    /\ Truthy(dlArgs.expectedHash)
    /\ dlArgs.expectedHash # dlChecksum
    /\ dlArgs.expectedHash = ToUpperCase(dlChecksum)

\* C16: when downloadAndVerify fails with a digest mismatch the file written to
\* the destination path stays: the failing step neither removes nor changes it,
\* and afterwards it is never removed or shortened
C16_MismatchLeavesFile ==
    [][/\ (dlPc = "statted" /\ dlPc' = "thrown") => (disk' = disk /\ disk' # NotCreated)
       /\ dlError = HashVerificationFailed =>
              (disk' # NotCreated /\ IsPrefixOf(disk, disk'))]_vars

\* a mismatch was reported on a file that holds bytes
C16_Witness ==
    /\ dlPc = "thrown"
    /\ dlError = HashVerificationFailed
    /\ disk # NotCreated
    /\ Len(disk) > 0

\* C17: when the response status is not the success status, downloadFile fails
\* with the HTTP status error once the response is in, and no byte of the body
\* is streamed, counted, reported or written
C17_BadStatusRejects ==
    (dlPc # "idle" /\ dlServer.status # SUCCESS_STATUS) =>
        /\ dlPc \in {"request", "thrown"}
        /\ dlPc = "thrown" => dlError \in {HttpError(dlServer.status), ECONNRESET, RequestTimeout}
        /\ bytesDownloaded = 0
        /\ progress = << >>
        /\ stream = << >> /\ pending = << >>
        /\ disk = NotCreated
        /\ dlResult = NoResult

\* a 404 answer to a request for a non-empty body was rejected with HTTP 404
C17_Witness ==
    /\ dlPc = "thrown"
    /\ dlServer.status = 404
    /\ dlServer.body # << >>
    /\ dlError = HttpError(404)

\* C19: the digest is an MD5 digest when the hint is MD5, a SHA256 digest when
\* the hint is SHA256; with no hint it is MD5 for an expected digest of 32
\* characters and SHA256 for one of 64; with neither hint nor expected digest
\* it is SHA256
C19_AlgorithmSelection ==
    dlChecksum # Undefined =>
        LET hint == dlArgs.hashType
            expected == dlArgs.expectedHash
            length == Len(dlChecksum)
        IN /\ hint = MD5 => length = Md5Length
           /\ hint = SHA256 => length = Sha256Length
           /\ (hint = Undefined /\ Truthy(expected) /\ Len(expected) = Md5Length)
                 => length = Md5Length
           /\ (hint = Undefined /\ Truthy(expected) /\ Len(expected) = Sha256Length)
                 => length = Sha256Length
           /\ (hint = Undefined /\ ~Truthy(expected)) => length = Sha256Length

\* a SHA256 hint decided against an expected digest of 32 characters
C19_Witness ==
    /\ dlChecksum # Undefined
    /\ dlArgs.hashType = SHA256
    /\ Truthy(dlArgs.expectedHash)
    /\ Len(dlArgs.expectedHash) = Md5Length
    /\ Len(dlChecksum) = Sha256Length


\* C18: when the request timer fires while downloadFile's promise is pending,
\* the promise is rejected with the timeout error; a request that waits for its
\* response does not wait for ever; and the promise settles once: after the
\* first resolve or reject no later timeout, request error or stream end
\* changes the outcome
C18_TimeoutRejectsOnce ==
    /\ [][/\ (dlPc \in {"request", "stream"} /\ "timeout" \in dlEvents' /\ "timeout" \notin dlEvents)
              => (dlPc' = "thrown" /\ dlError' = RequestTimeout)
          /\ dlPc \in {"thrown", "resolved"}
              => (dlPc' = dlPc /\ dlError' = dlError /\ dlResult' = dlResult)]_vars
    /\ (dlPc = "request") ~> (dlPc \in {"thrown", "stream", "resolved"})

\* the timeout rejected a request that was waiting for its response, and the
\* request error that followed left the timeout error in place
C18_Witness ==
    /\ dlPc = "thrown"
    /\ dlError = RequestTimeout
    /\ stream = << >> /\ bytesDownloaded = 0
    /\ dlEvents = {"timeout", "error"}

----------------------------------------------------------------------------
(* Claims about the Scraper *)

\* C3: the control downloadVersion clicks is one whose release identifier
\* equals the requested version with the "v" stripped and trailing zeros
\* normalized, whatever the order of the controls.
C3_ClicksRequestedRelease ==
    (scOp = "downloadVersion" /\ clicked # 0)
    => page[clicked] = NormalizedVersion(scVersion)

\* C4: getVersionHash clicks the download control of the requested version,
\* so the URL it fetches is the artifact of that release.
C4_HashOfRequestedRelease ==
    scOp = "getVersionHash" =>
        /\ clicked # 0 =>
              page[clicked] \in {NormalizedVersion(scVersion), ReplaceFirstV(scVersion)}
        /\ fetched.url # Null =>
              ReleaseOfUrl(fetched.url)
                  \in {NormalizedVersion(scVersion), ReplaceFirstV(scVersion)}

\* C5: after getVersionHash returned a digest, the record of that version holds
\* it in checksum, the field downloadVersion passes as the expected digest.
C5_DiscoveredDigestIsExpected ==
    (/\ scOp = "getVersionHash"
     /\ scPc = "done"
     /\ scOutcome.kind = "returned"
     /\ scOutcome.value # Null)
    => LET i == GetVersionIndex(data.versions, scVersion)
       IN /\ i # 0
          /\ OrUndefined(data.versions[i].checksum) = scOutcome.value

\* C6: when downloadVersion or getVersionHash has returned or thrown, a browser
\* session that was launched is closed.
C6_SessionClosedOnExit ==
    scPc = "done" => browser # "open"

\* a digest mismatch thrown with the session open, and the session closed on the way out
C6_Witness ==
    /\ scPc = "done"
    /\ scOp = "downloadVersion"
    /\ fetched.kind = "thrown"
    /\ fetched.error = HashVerificationFailed
    /\ browser = "closed"

\* C7: a digest mismatch or an HTTP status error of the download is thrown on
\* to the caller of downloadVersion and of getVersionHash.
C7_FetchErrorsPropagate ==
    (/\ scPc = "done"
     /\ fetched.kind = "thrown"
     /\ fetched.error \in {HashVerificationFailed, HttpError(404)})
    => (scOutcome.kind = "thrown" /\ scOutcome.error = fetched.error)

\* C20: in downloadVersion, when the capture window elapses and no response has
\* matched the artifact filter, the operation fails with the redirect-not-captured
\* error, no fetch is started and no file is written; a fetch is started only on
\* a URL that matched the filter; and the wait can always end, whether or not a
\* response has arrived
C20_NoCaptureFails ==
    /\ (scOp = "downloadVersion" /\ scPc \in {"finally", "done"} /\ clicked # 0
            /\ downloadUrl = Null)
          => /\ scOutcome = [kind |-> "thrown", error |-> RedirectNotCaptured]
             /\ fetched = NotFetched
             /\ disk = NotCreated
    /\ (scOp = "downloadVersion" /\ fetched.kind # "none")
          => /\ Includes(fetched.url, ARCGIS_DOWNLOAD)
             /\ Includes(fetched.url, ZIP_EXTENSION)
    /\ scPc = "window" => ENABLED ScWindowElapsed

\* responses that do not match the filter arrived during the window, and
\* downloadVersion ended with the redirect-not-captured error
C20_Witness ==
    /\ scOp = "downloadVersion"
    /\ scPc = "done"
    /\ responses > 0
    /\ downloadUrl = Null
    /\ scOutcome = [kind |-> "thrown", error |-> RedirectNotCaptured]

\* C21: a requested version "1.00" or "v1.00" selects the control whose release
\* identifier is "1.0": when the page offers that control it is the one found
\* and clicked, and the control-not-found error means the page does not offer it
C21_TrailingZeroSelects ==
    (scOp = "downloadVersion" /\ scVersion \in {Bare100, WithV(Bare100)}) =>
        /\ scPc \in {"click", "window", "fetch", "store"}
              => (downloadButton # 0 /\ page[downloadButton] = Bare10)
        /\ clicked # 0 => page[clicked] = Bare10
        /\ scOutcome = [kind |-> "thrown", error |-> ControlNotFound]
              => \A i \in 1..Len(page) : page[i] # Bare10

\* "v1.00" was requested and the control of release 1.0, the second on the page,
\* was clicked
C21_Witness ==
    /\ scOp = "downloadVersion"
    /\ scVersion = WithV(Bare100)
    /\ clicked = 2
    /\ page[clicked] = Bare10

\* C22: whenever downloadVersion fails (control not found, redirect not
\* captured, fetch error, digest mismatch) the catalog in memory and the catalog
\* file are what they were before the call
C22_FailureKeepsCatalog ==
    (scOp = "downloadVersion" /\ (scOutcome.kind = "thrown" \/ fetched.kind = "thrown")) =>
        /\ lastCall.op = "constructor"
        /\ file \in ShippedFiles
        /\ data = LoadVersionsData(file)

\* a digest mismatch ended downloadVersion
C22_Witness ==
    /\ scOp = "downloadVersion"
    /\ scPc = "done"
    /\ scOutcome = [kind |-> "thrown", error |-> HashVerificationFailed]

----------------------------------------------------------------------------
(* Claims about the CLI *)

\* C23: when the download command is given an output path (--d <version>
\* --output <file>), the artifact is written to that path and not to
\* arcgis-experience-builder-<version>.zip
C23_OutputOptionUsed ==
    (cliOptions.command = "d" /\ Truthy(cliOptions.output) /\ fetched.kind # "none") =>
        /\ fetched.path \in {cliOptions.output, PathResolve(cliOptions.output)}
        /\ fetched.path # DefaultOutputPath(cliOptions.version)

\* C24: a version identifier that does not match ^v?\d+\.\d+$ is rejected as
\* ill-formed by both handlers: no Scraper method is called, no browser is
\* launched, no response is received, no URL is fetched, and the process has
\* ended with a non-zero exit code
C24_InvalidFormatRejected ==
    (cliOptions.command \in {"getVersion", "d"} /\ ~VersionPatternTest(cliOptions.version)) =>
        /\ cliPc = "exited"
        /\ exitCode # NotExited
        /\ exitCode # SUCCESS
        /\ cliMessage = INVALID_VERSION_FORMAT
        /\ scOp = "none"
        /\ browser = "none"
        /\ responses = 0
        /\ fetched = NotFetched

\* --d "1." ended with exit code 1
C24_Witness ==
    /\ cliOptions.command = "d"
    /\ cliOptions.version = <<"1", ".">>
    /\ cliPc = "exited"
    /\ exitCode = ERROR

\* C25: an invocation whose operation failed (invalid format, version not
\* found, control not found, redirect not captured, fetch error or digest
\* mismatch, no hash obtained) ends with a non-zero exit code; exit code 0 is
\* the end of --list and of the invocations whose download returned a result
C25_ExitCodeTellsSuccess ==
    cliPc = "exited" =>
        /\ exitCode \in {SUCCESS, ERROR}
        /\ exitCode = SUCCESS <=> (cliOptions.command = "list" \/ fetched.kind = "returned")
        /\ cliOptions.command # "list" =>
            /\ ~VersionPatternTest(cliOptions.version) => exitCode # SUCCESS
            /\ ~hasVersion(cliOptions.version) => exitCode # SUCCESS
            /\ downloadButton = 0 => exitCode # SUCCESS
            /\ fetched.kind = "none" => exitCode # SUCCESS
            /\ fetched.kind = "thrown" => exitCode # SUCCESS
            /\ (cliOptions.command = "getVersion" /\ scOutcome.kind = "returned"
                    /\ scOutcome.value = Null) => exitCode # SUCCESS

\* --get-version ended with exit code 1 because getVersionHash returned null
\* after the redirect was not captured
C25_Witness ==
    /\ cliPc = "exited"
    /\ cliOptions.command = "getVersion"
    /\ clicked # 0
    /\ fetched.kind = "none"
    /\ scOutcome = [kind |-> "returned", value |-> Null]
    /\ exitCode = ERROR

----------------------------------------------------------------------------
(* Claims about Scraper.scrapeVersionHash *)

\* C26: when no input of the checksum dialog holds a valid digest and the
\* clipboard gives no valid digest, but the dialog text holds exactly one word
\* of 64 hexadecimal characters, scrapeVersionHash returns that word, also when
\* the dialog holds a copy-to-clipboard control
C26_TextScanFallback ==
    (/\ shPc = "done"
     /\ shEnv.checksumsButton
     /\ shEnv.validationInPage
     /\ Len(dialogs) = 1
     /\ \A i \in 1..Len(shTrace) : shTrace[i].ev # "error"
     /\ FirstValidInput(AllInputs(dialogs[1])) = 0
     /\ ~IsValidHash(dialogs[1].copies)
     /\ ~IsValidHash(clipboard)
     /\ Len(TextHashMatches(dialogs[1].text)) = 1)
        => shResult = [kind |-> "returned", value |-> TextHashMatches(dialogs[1].text)[1]]

\* C27: when a cookie-consent dialog with a reject or accept control is the
\* dialog the selectors find after the click, every extraction tier that is
\* evaluated comes after the dismissal of the consent dialog and none is
\* evaluated against the consent dialog
C27_ConsentDismissedFirst ==
    (/\ Len(dialogs) = 2
     /\ dialogs[1].kind = "consent"
     /\ FirstDialog(dialogs, {}) = 1
     /\ CookieControl(dialogs[1].buttons) # "none")
        => \A i \in 1..Len(shTrace) :
              shTrace[i].ev = "tier" =>
                  /\ shTrace[i].on # "consent"
                  /\ \E j \in 1..(i - 1) : shTrace[j].ev = "dismiss"

----------------------------------------------------------------------------
(* Claims about the response observer *)

\* C28: when several responses matching the artifact filter arrive, the URL
\* recorded is the one of the first matching response: once a URL is recorded,
\* no later response replaces it, and the URL fetched is that first URL
C28_FirstMatchKept ==
    [][(downloadUrl # Null /\ responses' # responses) => downloadUrl' = downloadUrl]_vars

\* C29: the observer records the URL of a response only if the URL contains
\* "arcgis-experience-builder-" and ".zip" and the content-type contains
\* application/zip; a response failing one of the three (a missing content-type
\* included) leaves the recorded URL as it was
C29_TripleCondition ==
    [][responses' # responses =>
          IF /\ Includes(lastResponse'.url, <<"arcgis-experience-builder", "-">>)
             /\ Includes(lastResponse'.url, <<".zip">>)
             /\ lastResponse'.contentType # Undefined
             /\ Includes(lastResponse'.contentType, <<"application/zip">>)
          THEN downloadUrl' = lastResponse'.url
          ELSE downloadUrl' = downloadUrl]_vars

\* the responses received were one with the artifact's URL and a content-type
\* other than application/zip, then one with the artifact's URL and no
\* content-type: nothing is recorded
C29_Witness ==
    /\ responses = 2
    /\ clicked # 0
    /\ lastResponse = [url |-> ArtifactUrl(page[clicked]), contentType |-> Undefined]
    /\ downloadUrl = Null
    /\ scPc = "finally"

\* C30: in downloadVersion and in getVersionHash the observer listens before
\* the control is clicked: it listens when the click is about to happen, and
\* whenever the control was clicked or a response has arrived
C30_ObserverBeforeClick ==
    /\ scPc = "click" => listening
    /\ clicked # 0 => listening
    /\ responses > 0 => listening

\* getVersionHash recorded the URL of a response that followed its click
C30_Witness ==
    /\ scOp = "getVersionHash"
    /\ clicked # 0
    /\ responses = 1
    /\ listening
    /\ downloadUrl = ArtifactUrl(page[clicked])

\* C31: once the capture window has elapsed the observer no longer records:
\* a matching response that arrives while the download runs or the catalog is
\* updated leaves the recorded URL as it was
C31_LateResponseIgnored ==
    [][(scPc \in {"fetch", "store"} /\ responses' # responses)
          => downloadUrl' = downloadUrl]_vars

----------------------------------------------------------------------------
(* Claims about the tiers of Scraper.scrapeVersionHash *)

\* C32: the tiers are evaluated in the order input field, clipboard, text
\* scan and the first that yields a valid digest gives the result: when the
\* first input of the checksum dialog holds a valid digest, that digest is
\* returned, whatever the clipboard and the text hold (in a calcite-dialog the
\* first input is the one of its calcite-input)
C32_InputTierFirst ==
    (/\ shPc = "done"
     /\ shEnv.checksumsButton
     /\ shEnv.validationInPage
     /\ Len(dialogs) = 1
     /\ dialogs[1].calcite => dialogs[1].calciteInput # Null
     /\ \A i \in 1..Len(shTrace) : shTrace[i].ev # "error"
     /\ AllInputs(dialogs[1]) # << >>
     /\ IsValidHash(AllInputs(dialogs[1])[1]))
        => shResult = [kind |-> "returned", value |-> AllInputs(dialogs[1])[1]]

\* C33: whenever scrapeVersionHash returns a digest, the dialog was closed
\* before (its close control was clicked, or Escape was sent)
C33_ClosedBeforeReturn ==
    (shPc = "done" /\ shResult.kind = "returned" /\ shResult.value # Null)
        => \E i \in 1..Len(shTrace) : shTrace[i].ev = "close"

\* C34: every value other than null that
\* scrapeVersionHash returns is exactly 64 hexadecimal characters: no value of
\* an input, of the clipboard or of the text that fails the length or the
\* character-set check is returned, nor is the marker CLICKED_COPY_BUTTON
C34_OnlyDigestsReturned ==
    (shResult.kind = "returned" /\ shResult.value # Null) =>
        /\ Len(shResult.value) = 64
        /\ \A i \in 1..Len(shResult.value) :
              shResult.value[i] \in {"0", "1", "2", "3", "4", "5", "6", "7", "8", "9",
                                     "a", "b", "c", "d", "e", "f",
                                     "A", "B", "C", "D", "E", "F"}
        /\ shResult.value \notin {CLICKED_COPY_BUTTON, NotAHash, ShortHex, NonHex64}

\* the calcite-input held a value too short, the clipboard and the second
\* input values that are not hexadecimal, and the digest of the third input
\* was returned
C34_Witness ==
    /\ shPc = "done"
    /\ Len(dialogs) = 1
    /\ AllInputs(dialogs[1]) = <<ShortHex, NonHex64, HashB>>
    /\ clipboard = NonHex64
    /\ shResult = [kind |-> "returned", value |-> HashB]

\* C35: scrapeVersionHash never throws: every call ends with a returned
\* value, and that value is null when the checksums button or the dialog is
\* missing, when a page operation raised, and when no input and no text holds
\* a digest and the clipboard is unreadable or holds none
C35_NeverThrows ==
    shPc = "done" =>
        /\ shResult.kind = "returned"
        /\ ~shEnv.checksumsButton => shResult.value = Null
        /\ dialogs = << >> => shResult.value = Null
        /\ (\E i \in 1..Len(shTrace) : shTrace[i].ev = "error") => shResult.value = Null
        /\ (/\ \A d \in 1..Len(dialogs) :
                  /\ FirstValidInput(AllInputs(dialogs[d])) = 0
                  /\ TextHashMatches(dialogs[d].text) = << >>
            /\ ~shEnv.clipboardReadable \/ ~IsValidHash(clipboard))
              => shResult.value = Null

\* a page operation raised after the copy control was clicked, and null was
\* returned
C35_Witness ==
    /\ shPc = "done"
    /\ shEnv.checksumsButton
    /\ Len(shTrace) = 2
    /\ shTrace[1] = Event("tier", "clipboard", "checksum")
    /\ shTrace[2] = Event("error", "page", "none")
    /\ shResult = [kind |-> "returned", value |-> Null]

----------------------------------------------------------------------------
(* Claims about the catalog update of downloadVersion *)

\* C36: downloadVersion changes the catalog only after downloadAndVerify
\* returned and only for a record whose checksum was empty: that record's
\* checksum becomes the computed digest, every other record and the
\* identifier, hash and release date of the record stay as they were; a
\* checksum that is not empty is never changed; and a download for a record
\* with an empty checksum never fails the verification
C36_UpdateOnlyEmptyChecksum ==
    /\ [][(scOp' = "downloadVersion" /\ (data' # data \/ file' # file)) =>
            /\ fetched.kind = "returned"
            /\ versionData # 0
            /\ data.versions[versionData].checksum \in {EmptyString, Undefined}
            /\ data'.versions[versionData].checksum = fetched.checksum
            /\ Len(data'.versions) = Len(data.versions)
            /\ \A i \in 1..Len(data.versions) :
                  /\ i # versionData => data'.versions[i] = data.versions[i]
                  /\ data'.versions[i].version = data.versions[i].version
                  /\ data'.versions[i].hash = data.versions[i].hash
                  /\ data'.versions[i].releaseDate = data.versions[i].releaseDate
            /\ file' = data']_vars
    /\ [][scOp' = "downloadVersion" =>
            \A i \in 1..Len(data.versions) :
                data.versions[i].checksum \notin {EmptyString, Undefined}
                    => (/\ Len(data'.versions) >= i
                        /\ data'.versions[i].checksum = data.versions[i].checksum)]_vars
    /\ [](fetched.error = HashVerificationFailed =>
            /\ versionData # 0
            /\ data.versions[versionData].checksum \notin {EmptyString, Undefined})

\* downloadVersion("1.1") returned and the record, whose checksum was empty,
\* holds the digest computed from the file
C36_Witness ==
    /\ scOp = "downloadVersion"
    /\ scPc = "done"
    /\ scVersion = Bare11
    /\ scOutcome.kind = "returned"
    /\ lastCall.op = "addOrUpdateVersion"
    /\ data.versions[versionData].checksum = fetched.checksum
    /\ fetched.checksum = Sha256Hex(ArtifactBytes(Bare11))

----------------------------------------------------------------------------
(* Claims about the destination file of downloadFile *)

\* C37: when downloadFile rejects because the response status is not the
\* success status, the call has not created, opened or changed the file at
\* the destination: a path that held no file holds none, a file that was
\* there holds the bytes it held, and nothing waits to be written
C37_BadStatusLeavesFile ==
    /\ [][dlServer'.status # 200 => disk' = disk]_vars
    /\ []((dlPc = "thrown" /\ dlError = HttpError(dlServer.status)) =>
            /\ disk \in {NotCreated, OldFile}
            /\ pending = << >>
            /\ ~ENABLED DlFileOpened
            /\ ~ENABLED DlFlush)

\* a 404 answer was rejected and the file of an earlier run is still there
C37_Witness ==
    /\ dlPc = "thrown"
    /\ dlServer.status = 404
    /\ dlError = HttpError(404)
    /\ dlServer.body # << >>
    /\ disk = OldFile

----------------------------------------------------------------------------
(* Claims about the lookup of downloadVersion *)

\* C38: downloadVersion called with a version the catalog holds under none of
\* its spellings (as given, with a "v" put in front, with its "v" taken off)
\* throws the version-not-found error at once: no browser is launched, no
\* control is clicked, no response is received and nothing is fetched
C38_UnknownVersionThrows ==
    (/\ scOp = "downloadVersion"
     /\ \A i \in 1..Len(data.versions) :
           /\ data.versions[i].version # scVersion
           /\ data.versions[i].version # <<"v">> \o scVersion
           /\ <<"v">> \o data.versions[i].version # scVersion)
        => /\ scPc = "done"
           /\ scOutcome = [kind |-> "thrown", error |-> VersionNotFound]
           /\ browser = "none"
           /\ ~listening
           /\ clicked = 0
           /\ responses = 0
           /\ downloadUrl = Null
           /\ fetched = NotFetched
           /\ lastCall.op = "constructor"

\* downloadVersion("1.2") on a catalog without 1.2 threw version-not-found
C38_Witness ==
    /\ scOp = "downloadVersion"
    /\ scVersion = <<"1", ".", "2">>
    /\ scPc = "done"
    /\ scOutcome = [kind |-> "thrown", error |-> VersionNotFound]
    /\ browser = "none"

----------------------------------------------------------------------------
(* Claims about the batch harness *)

\* C39: the versions are tested one after another and each contributes
\* exactly one TestResult, whichever of the close event, the error event and
\* the timeout of a child fire and in whatever order: the results are those of
\* the versions tested so far, in order; a child is spawned only when all
\* versions before it have their result; failedVersions holds exactly the
\* versions whose result is not successful; at the end there are as many
\* results as versions
C39_OneResultPerVersion ==
    LET failures == SelectSeq(results, LAMBDA r : ~r.success)
    IN /\ Len(results) <= Len(vtVersions)
       /\ vtSettled = 1..Len(results)
       /\ \A k \in 1..Len(results) : results[k].version = vtVersions[k]
       /\ failedVersions = [k \in 1..Len(failures) |-> failures[k].version]
       /\ vtPc = "testing" => vtIndex = Len(results) + 1
       /\ \A f \in vtFired : f[1] <= Len(results) + 1
       /\ vtPc = "done" => Len(results) = Len(vtVersions)

\* two versions were tested, the close event, the error event and the timeout
\* of the first child all fired, and the run ended with two results
C39_Witness ==
    /\ vtPc = "done"
    /\ Len(vtVersions) = 2
    /\ {<<1, "close">>, <<1, "error">>, <<1, "timeout">>} \subseteq vtFired
    /\ vtClosing = {}
    /\ Len(results) = 2
    /\ results[2].success
    /\ failedVersions = <<vtVersions[1]>>

====
